---------------------------- MODULE Spec2Model ----------------------------
(***************************************************************************)
(* A model of the real-time control rig: the discrete PID controller       *)
(* (common/pid_controller.py), the sensing control loop and its inline     *)
(* congestion step (beta/sensor_PIDcontroller.py), the degradation         *)
(* injector (beta/network_injector.py), the actuation node's command       *)
(* receiver, tachometer and RPM sender (alpha/fan_receiver.py), the        *)
(* shutdown paths of both nodes, the draining receive loop of the          *)
(* actuation-side controller (alpha/fan_PIDcontroller.py), and the web     *)
(* application: its load experiments (web_app/experiment_manager.py),      *)
(* its telemetry aggregator and its configuration file updates             *)
(* (web_app/master_controller.py).                                         *)
(*                                                                         *)
(* Numbers.  The program computes in floating point; the model computes in *)
(* exact integers, in units chosen so that every product and quotient the  *)
(* code forms on the modelled inputs is exact:                             *)
(*   - wall-clock time is counted in ticks; time.time() is the variable    *)
(*     now, advanced by the environment;                                   *)
(*   - a sample time is a number of ticks, and the gains a caller passes   *)
(*     are per tick, so Ki * sample_time and Kd / sample_time are the      *)
(*     code's own scaling;                                                 *)
(*   - NaN and the infinities are outside the model.                       *)
(***************************************************************************)
EXTENDS Integers, Sequences, FiniteSets, TLC

VARIABLES
    experiment,     \* web app: an ExperimentManager, its worker and its subprocess
    system_status,  \* web app: the aggregator's status dictionary and its feeds
    drain,          \* fan_PIDcontroller.py: the draining receive loop
    upd,            \* web app: update_status_file calls in progress
    now,            \* time.time(), in ticks
    pid,            \* the PID object (controller under test / the loop's controller)
    call,           \* observation of the last PID method call
    twin,           \* a second PID object, DIRECT, run in lockstep with pid
    twinlog,        \* observation of the lockstep run
    current_state,  \* sensing node: the shared state dictionary
    setpoint_file,  \* content of setpoint_config.json
    congestion_file,\* content of congestion_config.json
    alive,          \* sensing node: the PID control thread is running
    iter,           \* observation of the last loop iteration
    inj,            \* observation of the last inject_delay_and_check_loss call
    writes,         \* number of config file writes so far
    writer,         \* operator process: the update_status_file call in progress
    scen,           \* a scripted run of the controller: measurements fed, outputs returned
    sched,          \* observation of the setpoint schedule at the previous instant
    rxq,            \* actuation node: datagrams queued at the command socket
    pwm,            \* actuation node: the duty cycle set on PWM_PIN
    rxlog,          \* observation of the last receive
    fan,            \* actuation node: the stop event, the receiver thread and main()
    tachometer,     \* actuation node: the Tachometer object
    global_rpm,     \* actuation node: the RPM shared under rpm_lock
    report,         \* actuation node: observation of the RPM sender thread
    edge,           \* observation of the last tachometer callback
    node            \* sensing node: the control thread and main() during shutdown

pidVars == <<pid, call>>
twinVars == <<twin, twinlog>>
fileVars == <<setpoint_file, congestion_file, writes, writer>>
loopVars == <<current_state, alive, iter, inj>>
recvVars == <<rxq, pwm, rxlog, fan>>
tachVars == <<tachometer, global_rpm, report, edge>>
stopVars == <<node>>
scenVars == <<scen>>
schedVars == <<sched>>
webVars == <<experiment, system_status, drain, upd>>
vars == <<experiment, system_status, drain, upd, now, pid, call, twin, twinlog, current_state, setpoint_file,
         congestion_file, alive, iter, inj, writes, writer, rxq, pwm, rxlog,
         scen, sched, fan, tachometer, global_rpm, report, edge, node>>

-----------------------------------------------------------------------------
(* Bounds of the model *)

MaxTime == 3
MaxLoopTime == 7
MaxWrites == 2
MaxQueue == 3
MaxSchedTime == 1700
MaxStoreTime == 4
MaxTuneTime == 2
MaxEdges == 3
MaxReports == 3
MaxStopTime == 84
MaxIterations == 2

-----------------------------------------------------------------------------
(* Arithmetic helpers *)

\* a / b for b > 0, exact on the modelled inputs (b divides a)
Quot(a, b) == IF a >= 0 THEN a \div b ELSE -((-a) \div b)

\* the code's two-branch clamp:  if x > max: x = max  elif x < min: x = min
Clamp(x, lim) == IF x > lim[2] THEN lim[2] ELSE IF x < lim[1] THEN lim[1] ELSE x

-----------------------------------------------------------------------------
(* common/pid_controller.py : class PID *)

\* PID.__init__ without the REVERSE negation of lines 25-26
PID_no_reverse(Kp, Ki, Kd, setpoint, sample_time, output_limits, controller_direction, t) ==
    [ setpoint             |-> setpoint,
      sample_time          |-> sample_time,
      output_limits        |-> output_limits,
      controller_direction |-> controller_direction,
      Kp                   |-> Kp,
      Ki                   |-> Ki * sample_time,
      Kd                   |-> Quot(Kd, sample_time),
      last_time            |-> t,
      last_input           |-> 0,
      ITerm                |-> 0,
      output               |-> 0,
      in_auto              |-> TRUE ]

\* PID.__init__, called at time t
PID(Kp, Ki, Kd, setpoint, sample_time, output_limits, controller_direction, t) ==
    LET sKp == Kp
        sKi == Ki * sample_time
        sKd == Quot(Kd, sample_time)
        rev == controller_direction = "REVERSE"
    IN [ setpoint             |-> setpoint,
         sample_time          |-> sample_time,
         output_limits        |-> output_limits,
         controller_direction |-> controller_direction,
         Kp                   |-> IF rev THEN -sKp ELSE sKp,
         Ki                   |-> IF rev THEN -sKi ELSE sKi,
         Kd                   |-> IF rev THEN -sKd ELSE sKd,
         last_time            |-> t,
         last_input           |-> 0,
         ITerm                |-> 0,
         output               |-> 0,
         in_auto              |-> TRUE ]

\* PID.compute with the time gate removed (a defect used to test the claims)
compute_ungated(p, input_val, t) ==
    IF ~p.in_auto THEN p
    ELSE LET error   == p.setpoint - input_val
             iterm   == Clamp(p.ITerm + p.Ki * error, p.output_limits)
             d_input == input_val - p.last_input
             output  == Clamp(p.Kp * error + iterm - p.Kd * d_input, p.output_limits)
         IN [p EXCEPT !.ITerm = iterm, !.output = output,
                      !.last_input = input_val, !.last_time = t]

\* PID.compute without the anti-windup clamp of the integral term
compute_noclamp(p, input_val, t) ==
    IF ~p.in_auto THEN p
    ELSE IF t - p.last_time >= p.sample_time
    THEN LET error   == p.setpoint - input_val
             iterm   == p.ITerm + p.Ki * error
             d_input == input_val - p.last_input
             output  == Clamp(p.Kp * error + iterm - p.Kd * d_input, p.output_limits)
         IN [p EXCEPT !.ITerm = iterm, !.output = output,
                      !.last_input = input_val, !.last_time = t]
    ELSE p

\* PID.compute that does not store the measurement for the next cycle
compute_keep_last_input(p, input_val, t) ==
    IF ~p.in_auto THEN p
    ELSE IF t - p.last_time >= p.sample_time
    THEN LET error   == p.setpoint - input_val
             iterm   == Clamp(p.ITerm + p.Ki * error, p.output_limits)
             d_input == input_val - p.last_input
             output  == Clamp(p.Kp * error + iterm - p.Kd * d_input, p.output_limits)
         IN [p EXCEPT !.ITerm = iterm, !.output = output, !.last_time = t]
    ELSE p

\* PID.compute with the derivative taken on the error: last_input holds the
\* negated error of the previous accepted call
compute_derivative_on_error(p, input_val, t) ==
    IF ~p.in_auto THEN p
    ELSE IF t - p.last_time >= p.sample_time
    THEN LET error   == p.setpoint - input_val
             iterm   == Clamp(p.ITerm + p.Ki * error, p.output_limits)
             d_input == (0 - error) - p.last_input
             output  == Clamp(p.Kp * error + iterm - p.Kd * d_input, p.output_limits)
         IN [p EXCEPT !.ITerm = iterm, !.output = output,
                      !.last_input = 0 - error, !.last_time = t]
    ELSE p

\* PID.compute called at time t: the new object state; the value returned is
\* the new state's output on every path (lines 32, 56 and 59 return self.output)
compute(p, input_val, t) ==
    IF ~p.in_auto THEN p
    ELSE IF t - p.last_time >= p.sample_time
    THEN LET error   == p.setpoint - input_val
             iterm   == Clamp(p.ITerm + p.Ki * error, p.output_limits)
             d_input == input_val - p.last_input
             output  == Clamp(p.Kp * error + iterm - p.Kd * d_input, p.output_limits)
         IN [p EXCEPT !.ITerm = iterm, !.output = output,
                      !.last_input = input_val, !.last_time = t]
    ELSE p

\* set_tuning without the sign check of line 64
set_tuning_unchecked(p, Kp, Ki, Kd) ==
    LET sKi == Ki * p.sample_time
        sKd == Quot(Kd, p.sample_time)
        rev == p.controller_direction = "REVERSE"
    IN [p EXCEPT !.Kp = IF rev THEN -Kp ELSE Kp,
                 !.Ki = IF rev THEN -sKi ELSE sKi,
                 !.Kd = IF rev THEN -sKd ELSE sKd]

\* set_tuning storing Ki and Kd as passed, not scaled by the sample time
set_tuning_unscaled(p, Kp, Ki, Kd) ==
    IF Kp < 0 \/ Ki < 0 \/ Kd < 0 THEN p
    ELSE LET rev == p.controller_direction = "REVERSE"
         IN [p EXCEPT !.Kp = IF rev THEN -Kp ELSE Kp,
                      !.Ki = IF rev THEN -Ki ELSE Ki,
                      !.Kd = IF rev THEN -Kd ELSE Kd]

\* PID.set_tuning
set_tuning(p, Kp, Ki, Kd) ==
    IF Kp < 0 \/ Ki < 0 \/ Kd < 0 THEN p
    ELSE LET sKi == Ki * p.sample_time
             sKd == Quot(Kd, p.sample_time)
             rev == p.controller_direction = "REVERSE"
         IN [p EXCEPT !.Kp = IF rev THEN -Kp ELSE Kp,
                      !.Ki = IF rev THEN -sKi ELSE sKi,
                      !.Kd = IF rev THEN -sKd ELSE sKd]

\* PID.set_sample_time: ratio = new / old; Ki *= ratio; Kd /= ratio
set_sample_time(p, new_sample_time) ==
    IF new_sample_time > 0
    THEN [p EXCEPT !.Ki = Quot(p.Ki * new_sample_time, p.sample_time),
                   !.Kd = Quot(p.Kd * p.sample_time, new_sample_time),
                   !.sample_time = new_sample_time]
    ELSE p

\* PID.set_output_limits
set_output_limits(p, min_out, max_out) ==
    IF min_out > max_out THEN p
    ELSE [p EXCEPT !.output_limits = <<min_out, max_out>>,
                   !.output = Clamp(p.output, <<min_out, max_out>>),
                   !.ITerm = Clamp(p.ITerm, <<min_out, max_out>>)]

\* PID.initialize
initialize(p) ==
    [p EXCEPT !.last_input = 0, !.ITerm = Clamp(p.output, p.output_limits)]

\* PID.set_mode
set_mode(p, mode) ==
    LET new_auto == (mode = "AUTOMATIC")
        q == IF new_auto /\ ~p.in_auto THEN initialize(p) ELSE p
    IN [q EXCEPT !.in_auto = new_auto]

\* PID.set_controller_direction
set_controller_direction(p, direction) ==
    [p EXCEPT !.controller_direction = direction]

-----------------------------------------------------------------------------
(* JSON values and config files, as json.load and the Python conversions   *)
(* see them                                                                 *)

Num(n)  == [t |-> "num",  n |-> n, s |-> ""]
Str(x)  == [t |-> "str",  n |-> 0, s |-> x]
Bool(b) == [t |-> "bool", n |-> IF b THEN 1 ELSE 0, s |-> ""]
Null    == [t |-> "null", n |-> 0, s |-> ""]

\* strings float() parses, with their values
NumericStrings == {"42"}
ParseNumber(x) == IF x = "42" THEN 42 ELSE 0

\* float(v) returns (does not raise ValueError / TypeError)
CanFloat(v) == v.t \in {"num", "bool"} \/ (v.t = "str" /\ v.s \in NumericStrings)
\* float(v)
Float(v) == IF v.t = "str" THEN ParseNumber(v.s) ELSE v.n
\* bool(v)
Truthy(v) == CASE v.t = "str"  -> v.s # ""
               [] v.t = "null" -> FALSE
               [] OTHER        -> v.n # 0
\* v.upper() exists (v is a str)
CanUpper(v) == v.t = "str"
\* str.upper()
Upper(x) == CASE x = "running" -> "RUNNING"
              [] x = "stopped" -> "STOPPED"
              [] OTHER         -> x

\* a file: absent, not valid JSON, valid JSON that is no object, or an object
EmptyObject == [k \in {} |-> Null]
Absent      == [kind |-> "absent",  obj |-> EmptyObject]
Garbage     == [kind |-> "garbage", obj |-> EmptyObject]
NonDict     == [kind |-> "nondict", obj |-> EmptyObject]
Json(o)     == [kind |-> "json",    obj |-> o]

\* a file between open(filename, 'w'), which empties it, and the end of
\* json.dump: empty, or holding a proper prefix of the JSON text; json.load
\* raises on both
Truncated   == [kind |-> "truncated", obj |-> EmptyObject]
Partial     == [kind |-> "partial",   obj |-> EmptyObject]

\* dict.get(key, default)
Get(o, key, default) == IF key \in DOMAIN o THEN o[key] ELSE default

-----------------------------------------------------------------------------
(* beta/sensor_PIDcontroller.py                                             *)
(*                                                                          *)
(* Units of the sensing node: one tick is 25 ms, so sample_time 0.05 s is 2 *)
(* ticks; distances and setpoints are in half centimetres; controller       *)
(* output, integral and limits are in hundredths of a duty step.  In these  *)
(* units PID(Kp=150, Ki=0.8, Kd=1.2, sample_time=0.05) is                   *)
(* PID(7500, 1, 2400, sample_time 2): Kp 150 duty/cm = 7500 per half cm,   *)
(* Ki*sample_time 0.04 = 2, Kd/sample_time 24 = 1200.                       *)

OutScale  == 10 * 10        \* output units per duty step
MsPerTick == 5 * 5          \* milliseconds per tick
MIN_DUTY  == 80

\* current_state as the module creates it (lines 43-63), network fields left out
InitialState ==
    [ current_distance    |-> 0,
      current_duty        |-> 0,
      pid_setpoint        |-> 40,
      delay               |-> 0,
      loss_rate           |-> 0,
      oscillation_enabled |-> FALSE,
      oscillation_a       |-> 40,
      oscillation_b       |-> 60,
      oscillation_period  |-> 800,
      pid_next_setpoint   |-> 60,
      pid_switch_in       |-> 0,
      pid_status          |-> "RUNNING" ]

\* the module's PID instance (lines 70-76)
InitialPID == PID(7500, 1, 2400, 40, 2, <<0, 255 * OutScale>>, "REVERSE", 0)

\* update_runtime_configs, part 1 (lines 144-177): the new current_state and
\* controller, and whether the block ended without an exception
load_setpoint_config(cs, p, f) ==
    IF f.kind # "json" THEN [cs |-> cs, pid |-> p, ok |-> FALSE]
    ELSE
    LET base_setpoint  == Get(f.obj, "PID_SETPOINT", Num(cs.pid_setpoint))
        pid_status_cfg == Get(f.obj, "PID_STATUS", Str(cs.pid_status))
        osc_enabled    == Get(f.obj, "OSCILLATION_ENABLED", Bool(cs.oscillation_enabled))
        osc_a          == Get(f.obj, "OSCILLATION_A", Num(cs.oscillation_a))
        osc_b          == Get(f.obj, "OSCILLATION_B", Num(cs.oscillation_b))
        period         == Get(f.obj, "OSCILLATION_PERIOD_SEC", Num(cs.oscillation_period))
        cs1 == [cs  EXCEPT !.pid_status = Upper(pid_status_cfg.s)]
        cs2 == [cs1 EXCEPT !.oscillation_enabled = Truthy(osc_enabled)]
        cs3 == [cs2 EXCEPT !.oscillation_a = Float(osc_a)]
        cs4 == [cs3 EXCEPT !.oscillation_b = Float(osc_b)]
        cs5 == [cs4 EXCEPT !.oscillation_period = Float(period)]
        cs6 == [cs5 EXCEPT !.pid_setpoint = Float(base_setpoint)]
    IN  IF ~CanUpper(pid_status_cfg) THEN [cs |-> cs,  pid |-> p, ok |-> FALSE]
        ELSE IF ~CanFloat(osc_a)     THEN [cs |-> cs2, pid |-> p, ok |-> FALSE]
        ELSE IF ~CanFloat(osc_b)     THEN [cs |-> cs3, pid |-> p, ok |-> FALSE]
        ELSE IF ~CanFloat(period)    THEN [cs |-> cs4, pid |-> p, ok |-> FALSE]
        ELSE IF cs5.oscillation_enabled THEN [cs |-> cs5, pid |-> p, ok |-> TRUE]
        ELSE IF ~CanFloat(base_setpoint) THEN [cs |-> cs5, pid |-> p, ok |-> FALSE]
        ELSE [cs  |-> cs6,
              pid |-> [p EXCEPT !.setpoint = Float(base_setpoint)],
              ok  |-> TRUE]

\* part 2 falling back to the defaults when the file cannot be loaded
load_congestion_config_defaults(cs, f) ==
    IF f.kind # "json"
    THEN [cs |-> [cs EXCEPT !.delay = 0, !.loss_rate = 0], ok |-> FALSE]
    ELSE
    LET new_delay_ms  == Get(f.obj, "delay",
                             Get(f.obj, "CONGESTION_DELAY", Num(cs.delay)))
        new_loss_rate == Get(f.obj, "loss",
                             Get(f.obj, "PACKET_LOSS_RATE", Num(cs.loss_rate)))
        cs1 == [cs  EXCEPT !.delay = Float(new_delay_ms)]
        cs2 == [cs1 EXCEPT !.loss_rate = Float(new_loss_rate)]
    IN  IF ~CanFloat(new_delay_ms)       THEN [cs |-> cs,  ok |-> FALSE]
        ELSE IF ~CanFloat(new_loss_rate) THEN [cs |-> cs1, ok |-> FALSE]
        ELSE [cs |-> cs2, ok |-> TRUE]

\* update_runtime_configs, part 2 (lines 179-195)
load_congestion_config(cs, f) ==
    IF f.kind # "json" THEN [cs |-> cs, ok |-> FALSE]
    ELSE
    LET new_delay_ms  == Get(f.obj, "delay",
                             Get(f.obj, "CONGESTION_DELAY", Num(cs.delay)))
        new_loss_rate == Get(f.obj, "loss",
                             Get(f.obj, "PACKET_LOSS_RATE", Num(cs.loss_rate)))
        cs1 == [cs  EXCEPT !.delay = Float(new_delay_ms)]
        cs2 == [cs1 EXCEPT !.loss_rate = Float(new_loss_rate)]
    IN  IF ~CanFloat(new_delay_ms)       THEN [cs |-> cs,  ok |-> FALSE]
        ELSE IF ~CanFloat(new_loss_rate) THEN [cs |-> cs1, ok |-> FALSE]
        ELSE [cs |-> cs2, ok |-> TRUE]

\* update_runtime_configs that never opens the setpoint config file
update_runtime_configs_skip_setpoint(cs, p, sf, cf) ==
    LET b == load_congestion_config(cs, cf)
    IN [cs |-> b.cs, pid |-> p, sp_ok |-> FALSE, cg_ok |-> b.ok]

\* update_runtime_configs
update_runtime_configs(cs, p, sf, cf) ==
    LET a == load_setpoint_config(cs, p, sf)
        b == load_congestion_config(a.cs, cf)
    IN [cs |-> b.cs, pid |-> a.pid, sp_ok |-> a.ok, cg_ok |-> b.ok]

\* the fields of current_state that update_runtime_configs takes from each file
SetpointFields(cs) ==
    <<cs.pid_status, cs.oscillation_enabled, cs.oscillation_a, cs.oscillation_b,
      cs.oscillation_period, cs.pid_setpoint>>
CongestionFields(cs) == <<cs.delay, cs.loss_rate>>

Max(a, b) == IF a >= b THEN a ELSE b
Min(a, b) == IF a <= b THEN a ELSE b

\* int(x / y) for y # 0: Python's int() truncates toward zero
TruncDiv(x, y) ==
    IF (x >= 0) = (y > 0)
    THEN (IF x >= 0 THEN x ELSE -x) \div (IF y > 0 THEN y ELSE -y)
    ELSE -((IF x >= 0 THEN x ELSE -x) \div (IF y > 0 THEN y ELSE -y))

\* x % y for y # 0: Python's remainder has the sign of the divisor
PyMod(x, y) == IF y > 0 THEN x % y ELSE -((-x) % (-y))

\* the oscillation block switching level every half period
oscillation_half_period(cs, p, t) ==
    LET a      == cs.oscillation_a
        b      == cs.oscillation_b
        period == cs.oscillation_period
    IN  IF period = 0 THEN [cs |-> cs, pid |-> p, raised |-> TRUE]
        ELSE
        LET cycle_index   == TruncDiv(2 * t, period) % 2
            target        == IF cycle_index = 0 THEN a ELSE b
            next_target   == IF cycle_index = 0 THEN b ELSE a
            switch_in     == period - PyMod(t, period)
        IN [cs  |-> [cs EXCEPT !.pid_setpoint = target,
                               !.pid_next_setpoint = next_target,
                               !.pid_switch_in = switch_in],
            pid |-> [p EXCEPT !.setpoint = target],
            raised |-> FALSE]

\* the oscillation block recording the time elapsed in the cycle instead of
\* the time left
oscillation_elapsed(cs, p, t) ==
    LET a      == cs.oscillation_a
        b      == cs.oscillation_b
        period == cs.oscillation_period
    IN  IF period = 0 THEN [cs |-> cs, pid |-> p, raised |-> TRUE]
        ELSE
        LET cycle_index   == TruncDiv(t, period) % 2
            target        == IF cycle_index = 0 THEN a ELSE b
            next_target   == IF cycle_index = 0 THEN b ELSE a
            switch_in     == PyMod(t, period)
        IN [cs  |-> [cs EXCEPT !.pid_setpoint = target,
                               !.pid_next_setpoint = next_target,
                               !.pid_switch_in = switch_in],
            pid |-> [p EXCEPT !.setpoint = target],
            raised |-> FALSE]

\* the oscillation block with the two levels exchanged
oscillation_swapped(cs, p, t) ==
    LET a      == cs.oscillation_a
        b      == cs.oscillation_b
        period == cs.oscillation_period
    IN  IF period = 0 THEN [cs |-> cs, pid |-> p, raised |-> TRUE]
        ELSE
        LET cycle_index   == TruncDiv(t, period) % 2
            target        == IF cycle_index = 0 THEN b ELSE a
            next_target   == IF cycle_index = 0 THEN a ELSE b
            switch_in     == period - PyMod(t, period)
        IN [cs  |-> [cs EXCEPT !.pid_setpoint = target,
                               !.pid_next_setpoint = next_target,
                               !.pid_switch_in = switch_in],
            pid |-> [p EXCEPT !.setpoint = target],
            raised |-> FALSE]

\* the oscillation block (lines 266-285), entered with oscillation enabled, at
\* time t: int(now / period) raises ZeroDivisionError when period is 0, before
\* anything is assigned
oscillation(cs, p, t) ==
    LET a      == cs.oscillation_a
        b      == cs.oscillation_b
        period == cs.oscillation_period
    IN  IF period = 0 THEN [cs |-> cs, pid |-> p, raised |-> TRUE]
        ELSE
        LET cycle_index   == TruncDiv(t, period) % 2
            target        == IF cycle_index = 0 THEN a ELSE b
            next_target   == IF cycle_index = 0 THEN b ELSE a
            time_in_cycle == PyMod(t, period)
            switch_in     == period - time_in_cycle
        IN [cs  |-> [cs EXCEPT !.pid_setpoint = target,
                               !.pid_next_setpoint = next_target,
                               !.pid_switch_in = switch_in],
            pid |-> [p EXCEPT !.setpoint = target],
            raised |-> FALSE]

\* the sensor block with the fault sentinel fed into the controller
sensor_block_feed_fault(p, duty, new_distance, t) ==
    LET q      == compute(p, new_distance, t)
        output == q.output
    IN [duty     |-> IF output < MIN_DUTY * OutScale THEN MIN_DUTY
                     ELSE Quot(Min(255 * OutScale, output), OutScale),
        pid      |-> q,
        distance |-> new_distance,
        computed |-> TRUE,
        sensor_read |-> TRUE]

\* the sensor block applying the floor to positive outputs only
sensor_block_floor_positive(p, duty, new_distance, t) ==
    IF new_distance <= 0
    THEN [duty |-> duty, pid |-> p, distance |-> 0, computed |-> FALSE,
          sensor_read |-> TRUE]
    ELSE LET q      == compute(p, new_distance, t)
             output == q.output
         IN [duty     |-> IF output = 0 THEN 0
                          ELSE IF output < MIN_DUTY * OutScale THEN MIN_DUTY
                          ELSE Quot(Min(255 * OutScale, output), OutScale),
             pid      |-> q,
             distance |-> new_distance,
             computed |-> TRUE,
             sensor_read |-> TRUE]

\* the sensor block of a RUNNING iteration (lines 288-333): new_distance is what
\* get_distance_cm returned (0 on a timeout or a caught hardware error), duty
\* the duty of the previous iteration, t the time compute() is called
sensor_block(p, duty, new_distance, t) ==
    IF new_distance <= 0
    THEN [duty |-> duty, pid |-> p, distance |-> 0, computed |-> FALSE,
          sensor_read |-> TRUE]
    ELSE LET q      == compute(p, new_distance, t)
             output == q.output
         IN [duty     |-> IF output < MIN_DUTY * OutScale THEN MIN_DUTY
                          ELSE Quot(Min(255 * OutScale, output), OutScale),
             pid      |-> q,
             distance |-> new_distance,
             computed |-> TRUE,
             sensor_read |-> TRUE]

\* the STOPPED branch that keeps the last duty
stopped_block_keep_duty(p, duty) ==
    [duty |-> duty, pid |-> initialize(p), sensor_read |-> TRUE]

\* the STOPPED branch without the sensor read of line 259
stopped_block_no_read(p, duty) ==
    [duty |-> 0, pid |-> initialize(p), sensor_read |-> FALSE]

\* the STOPPED branch (lines 257-262)
stopped_block(p, duty) ==
    [duty |-> 0, pid |-> initialize(p), sensor_read |-> TRUE]

\* the shared duty written only when the command was delivered
shared_duty_update_if_sent(cs, duty, packet_sent) ==
    IF packet_sent THEN [cs EXCEPT !.current_duty = duty] ELSE cs

\* step 6 of the loop (lines 335-337): the shared duty is written before the
\* congestion step decides whether the command is sent
shared_duty_update(cs, duty, packet_sent) == [cs EXCEPT !.current_duty = duty]

\* the congestion step comparing with <= and without the loss_rate > 0 guard
congestion_step_le(delay, loss_rate, u) ==
    [slept       |-> IF delay > 0 THEN Quot(delay, MsPerTick) ELSE 0,
     packet_sent |-> ~(u <= loss_rate)]

\* the congestion step with the comparison inverted
congestion_step_inverted(delay, loss_rate, u) ==
    [slept       |-> IF delay > 0 THEN Quot(delay, MsPerTick) ELSE 0,
     packet_sent |-> ~(loss_rate > 0 /\ u >= loss_rate)]

\* the inline congestion step (lines 339-349): delay in ms, u the value of
\* random.random() * 100.0; slept is the time slept, in ticks
congestion_step(delay, loss_rate, u) ==
    [slept       |-> IF delay > 0 THEN Quot(delay, MsPerTick) ELSE 0,
     packet_sent |-> ~(loss_rate > 0 /\ u < loss_rate)]

-----------------------------------------------------------------------------
(* beta/network_injector.py *)

\* x / 1000.0 returns (x is a number)
CanDivide(v) == v.t \in {"num", "bool"}

\* read_congestion_config: delay_s in ticks, loss_rate_perc as the file gives it
read_congestion_config(f) ==
    LET defaults == [delay_s |-> 0, loss_rate_perc |-> Num(0)]
    IN  IF f.kind # "json" THEN defaults
        ELSE LET delay_ms == Get(f.obj, "CONGESTION_DELAY", Num(0))
             IN IF ~CanDivide(delay_ms) THEN defaults
                ELSE [delay_s        |-> Quot(delay_ms.n, MsPerTick),
                      loss_rate_perc |-> Get(f.obj, "PACKET_LOSS_RATE", Num(0))]

\* inject_delay_and_check_loss: loss_rate > 0.0 raises TypeError when the
\* loss rate read from the file is no number
inject_delay_and_check_loss(f, u) ==
    LET congestion_status == read_congestion_config(f)
        delay             == congestion_status.delay_s
        loss_rate         == congestion_status.loss_rate_perc
        slept             == IF delay > 0 THEN delay ELSE 0
    IN  [delay  |-> delay,
         loss   |-> IF CanDivide(loss_rate) THEN loss_rate.n ELSE -1,
         slept  |-> slept,
         result |-> IF ~CanDivide(loss_rate) THEN "raised"
                    ELSE IF loss_rate.n > 0 /\ u < loss_rate.n THEN "dropped"
                    ELSE "sent"]

-----------------------------------------------------------------------------
(* The PID object driven by an arbitrary caller: SpecPID *)

Directions   == {"DIRECT", "REVERSE"}
Modes        == {"AUTOMATIC", "MANUAL"}
SampleTimes  == {1, 2}
Setpoints    == {20, 30}
Measurements == {18, 25}
\* (Kp, Ki, Kd) a caller passes; the last one has a negative gain
Tunings      == {<<3, 1, 2>>, <<1, 0, 4>>, <<-1, 1, 2>>}
\* (min, max) a caller passes; the last one is rejected (min > max)
Limits       == {<<0, 255>>, <<10, 40>>, <<9, 1>>}

NoCall == [op |-> "none", early |-> FALSE, same_ret |-> TRUE, same_state |-> TRUE]

\* the fields compute() may write
Mutable(p) == <<p.ITerm, p.last_input, p.last_time, p.output>>

\* what an observer of a compute() call sees: p the object before the call, q after it
\*   early      : less than sample_time had elapsed since last_time
\*   same_ret   : the value returned (q.output) is the output held before
\*   same_state : integral, last input, last time and output are untouched
Logged(p, q) ==
    [op         |-> "compute",
     early      |-> now - p.last_time < p.sample_time,
     same_ret   |-> q.output = p.output,
     same_state |-> Mutable(q) = Mutable(p)]

IdlePID == PID(0, 0, 0, 0, 1, <<0, 255>>, "DIRECT", 0)

-----------------------------------------------------------------------------
(* alpha/fan_receiver.py : fan_receiver_thread_func *)

\* datagram payloads, as decoded and stripped text
Payloads == {"0", "80", "300", "-5", "abc"}

\* int(text) returns (does not raise ValueError)
IsIntToken(x) == x \in {"0", "80", "300", "-5"}
\* int(text)
IntOf(x) == CASE x = "0"   -> 0
              [] x = "80"  -> 80
              [] x = "300" -> 300
              [] x = "-5"  -> -5
              [] OTHER     -> 0

\* the loop body driving the pin to 0 on a payload that is not an integer
handle_datagram_zero_on_error(data, duty_on_pin) ==
    IF IsIntToken(data)
    THEN [pwm |-> Max(0, Min(255, IntOf(data))), applied |-> TRUE]
    ELSE [pwm |-> 0, applied |-> FALSE]

\* the body of the receive loop for one datagram (lines 85-100): the duty
\* cycle on the pin afterwards, and whether set_PWM_dutycycle was called
handle_datagram(data, duty_on_pin) ==
    IF IsIntToken(data)
    THEN [pwm |-> Max(0, Min(255, IntOf(data))), applied |-> TRUE]
    ELSE [pwm |-> duty_on_pin, applied |-> FALSE]

\* observation of a pass of the receive loop: whether a datagram was received
\* and applied, how many datagrams were queued behind it, the duty on the pin
\* before and after, whether stop_event was set, and whether the thread is
\* still in its loop afterwards
NoRecv == [applied |-> FALSE, behind |-> 0, received |-> FALSE, prev_pwm |-> 0,
           pwm_after |-> 0, stopping |-> FALSE, running_after |-> TRUE]

\* stop_event is clear, the receiver thread runs, the RPM sender thread is at
\* the top of its loop, main() waits in its loop; any_received: a datagram was
\* read from the command socket; after_stop: reports sent since stop_event
\* was set
NoFan == [stop_event |-> FALSE, receiver |-> "running", main |-> "serving",
          sender |-> "checking", any_received |-> FALSE, after_stop |-> 0]

IdleRecv ==
    /\ rxq = << >>
    /\ pwm = 0
    /\ rxlog = NoRecv
    /\ fan = NoFan

\* observation of the last falling edge (last_rpm: the RPM of the last positive
\* interval between two edges) and of the last report (edges: the number of
\* edges seen when it was sent)
NoEdge == [n |-> 0, prev_at |-> -1, at |-> 0, rpm_before |-> 0, last_rpm |-> 0]
NoReport == [n |-> 0, payload |-> << >>, at |-> 0, prev_at |-> 0, next |-> 0,
             rpm_read |-> 0, duty_on_pin |-> 0, edges |-> 0]

IdleTach ==
    /\ tachometer = [last_tick |-> -1]
    /\ global_rpm = 0
    /\ report = NoReport
    /\ edge = NoEdge

NoNode == [stop_event |-> FALSE, thread |-> "top", n |-> 0, ready |-> 0, wake |-> 0,
           duty |-> 0, packet_sent |-> FALSE, main |-> "running", deadline |-> 0,
           socket_open |-> TRUE, last_sent |-> -1, zero_sent |-> FALSE]

IdleStop == node = NoNode

\* no experiment object has been created
NoExperiment == [kind |-> "none"]

\* ExperimentManager.__init__ (lines 23-28) and what the model keeps beside
\* the object: is_running is the Event (set means stopped), load_process the
\* attribute ("None" or "proc", the Popen object), proc the state of the
\* operating-system process, worker and caller the positions of the worker
\* thread and of the thread calling start() and stop(), active what the
\* master controller's active_experiment refers to ("this" experiment,
\* "other", one created after it, or "none"); used_after_clear: the worker
\* dereferenced load_process after stop() had set it to None; cleared_other:
\* the finish callback of this experiment cleared active_experiment while it
\* referred to the other one
NewExperiment(kind) ==
    [kind |-> kind, metric |-> 0, is_running |-> FALSE, load_process |-> "None",
     proc |-> "none", worker |-> "none", caller |-> "idle", active |-> "none",
     used_after_clear |-> FALSE, cleared_other |-> FALSE]

\* the master controller's system_status (lines 64-85), the fields the
\* listeners write and master_timestamp, here the number of datagrams
\* handled; fan_output_duty is in tenths of a percent.  Beside it the
\* datagrams each listener has received, oldest first, and the observation of
\* the last step: who wrote and the dictionary before
StatusFields == [current_distance |-> 0, current_rpm |-> 0, fan_output_duty |-> 0,
                 pid_status |-> "STOPPED", master_timestamp |-> 0]

NoStatus == [status |-> StatusFields, sensor_log |-> << >>, fan_log |-> << >>,
             op |-> "none", before |-> StatusFields]

\* the draining receiver is not running
NoDrain == [pc |-> "off"]

\* no update_status_file call has been made
NoUpd == << >>

\* a thread of the master controller that calls update_status_file: the
\* number of calls it has finished, where it is in the current one ("idle":
\* not in a call), the dictionary it loaded and changed, the file content it
\* found, whether every call so far returned True, and whether the current
\* or last call ran while a call of the other thread was in progress
NoCaller == [n |-> 0, pc |-> "idle", data |-> EmptyObject, before |-> Absent,
             ok |-> TRUE, overlapped |-> FALSE]

IdleWeb ==
    /\ experiment = NoExperiment
    /\ system_status = NoStatus
    /\ drain = NoDrain
    /\ upd = NoUpd

\* a row of the per-iteration log (lines 364-377), the fields the model keeps
log_row(cs) ==
    [distance  |-> cs.current_distance,
     setpoint  |-> cs.pid_setpoint,
     duty      |-> cs.current_duty,
     delay_ms  |-> cs.delay,
     loss_rate |-> cs.loss_rate]

NoIter == [done |-> FALSE, status |-> "", fault |-> FALSE, computed |-> FALSE,
           pid_same |-> TRUE, prev_duty |-> 0, slept |-> 0, packet_sent |-> FALSE, sent |-> -1,
           sp_ok |-> TRUE, sp_kept |-> TRUE, cg_ok |-> TRUE, cg_kept |-> TRUE,
           osc_ran |-> FALSE, t |-> 0, sensor_read |-> FALSE, delay |-> 0,
           logged |-> FALSE, row |-> log_row(InitialState),
           prev_status |-> "", prev_iterm |-> 0]

NoInj == [delay |-> 0, loss |-> 0, slept |-> 0, result |-> "none"]

\* no update_status_file call is in progress
NoWriter == [busy |-> FALSE, file |-> "", data |-> EmptyObject]

IdleLoop ==
    /\ current_state = InitialState
    /\ setpoint_file = Absent
    /\ congestion_file = Absent
    /\ writes = 0
    /\ writer = NoWriter
    /\ alive = FALSE
    /\ iter = NoIter
    /\ inj = NoInj

IdleTwin ==
    /\ twin = IdlePID
    /\ twinlog = [retuned |-> FALSE, steps |-> 0]

NoScen == [seq |-> << >>, outs |-> << >>, dterms |-> << >>]
NoSched == [n |-> 0, target |-> 0, switch_in |-> 0]

IdleAux ==
    /\ scen = NoScen
    /\ sched = NoSched

InitPID ==
    /\ now = 0
    /\ \E d \in Directions, st \in SampleTimes :
          pid = PID(3, 1, 2, 20, st, <<0, 255>>, d, 0)
    /\ call = NoCall
    /\ IdleTwin
    /\ IdleLoop
    /\ IdleRecv
    /\ IdleTach
    /\ IdleStop
    /\ IdleWeb
    /\ IdleAux

Tick ==
    /\ now < MaxTime
    /\ now' = now + 1
    /\ UNCHANGED <<pidVars, twinVars, fileVars, loopVars, recvVars, tachVars, stopVars, scenVars, schedVars, webVars>>

DoCompute ==
    \E m \in Measurements :
        /\ pid' = compute(pid, m, now)
        /\ call' = Logged(pid, pid')
        /\ UNCHANGED <<now, twinVars, fileVars, loopVars, recvVars, tachVars, stopVars, scenVars, schedVars, webVars>>

DoSetSetpoint ==
    \E s \in Setpoints :
        /\ pid' = [pid EXCEPT !.setpoint = s]
        /\ call' = NoCall
        /\ UNCHANGED <<now, twinVars, fileVars, loopVars, recvVars, tachVars, stopVars, scenVars, schedVars, webVars>>

DoSetTuning ==
    \E g \in Tunings :
        /\ pid' = set_tuning(pid, g[1], g[2], g[3])
        /\ call' = NoCall
        /\ UNCHANGED <<now, twinVars, fileVars, loopVars, recvVars, tachVars, stopVars, scenVars, schedVars, webVars>>

DoSetSampleTime ==
    \E st \in SampleTimes \cup {0} :
        /\ pid' = set_sample_time(pid, st)
        /\ call' = NoCall
        /\ UNCHANGED <<now, twinVars, fileVars, loopVars, recvVars, tachVars, stopVars, scenVars, schedVars, webVars>>

DoSetOutputLimits ==
    \E l \in Limits :
        /\ pid' = set_output_limits(pid, l[1], l[2])
        /\ call' = NoCall
        /\ UNCHANGED <<now, twinVars, fileVars, loopVars, recvVars, tachVars, stopVars, scenVars, schedVars, webVars>>

DoSetMode ==
    \E m \in Modes :
        /\ pid' = set_mode(pid, m)
        /\ call' = NoCall
        /\ UNCHANGED <<now, twinVars, fileVars, loopVars, recvVars, tachVars, stopVars, scenVars, schedVars, webVars>>

DoInitialize ==
    /\ pid' = initialize(pid)
    /\ call' = NoCall
    /\ UNCHANGED <<now, twinVars, fileVars, loopVars, recvVars, tachVars, stopVars, scenVars, schedVars, webVars>>

NextPID ==
    \/ Tick
    \/ DoCompute
    \/ DoSetSetpoint
    \/ DoSetTuning
    \/ DoSetSampleTime
    \/ DoSetOutputLimits
    \/ DoSetMode
    \/ DoInitialize

SpecPID == InitPID /\ [][NextPID]_vars

-----------------------------------------------------------------------------
(* Claims about the PID object under SpecPID *)

\* C1: after any sequence of PID operations the output and the integral
\* accumulator both lie within [min, max] of the current output limits.
C1_OutputAndIntegralWithinLimits ==
    /\ pid.output_limits[1] <= pid.output
    /\ pid.output <= pid.output_limits[2]
    /\ pid.output_limits[1] <= pid.ITerm
    /\ pid.ITerm <= pid.output_limits[2]

\* an accepted compute() under narrowed limits left both the integral and the
\* output saturated at the upper limit
C1_Witness ==
    /\ call.op = "compute"
    /\ ~call.same_state
    /\ pid.output_limits = <<10, 40>>
    /\ pid.ITerm = 40
    /\ pid.output = 40

\* C2: a compute() call made when less than sample_time has elapsed since the
\* last accepted computation returns the previous output and leaves integral,
\* last input, last time and output as they were.
C2_GatedComputeChangesNothing ==
    (call.op = "compute" /\ call.early) => (call.same_ret /\ call.same_state)

\* a gated compute() on an automatic controller that already holds a non-zero
\* output and integral
C2_Witness ==
    /\ call.op = "compute"
    /\ call.early
    /\ pid.in_auto
    /\ pid.output > 0
    /\ pid.ITerm > 0
    /\ pid.last_time > 0

-----------------------------------------------------------------------------
(* A REVERSE controller and a DIRECT controller with negated gains, fed the   *)
(* same measurements and setpoints at the same times: SpecTwin               *)

\* (Kp, Ki, Kd) of the REVERSE controller; the DIRECT one is given the negatives
TwinGains == {<<3, 1, 2>>, <<1, 0, 4>>}

InitTwin ==
    /\ now = 0
    /\ \E g \in TwinGains, st \in SampleTimes :
          /\ pid  = PID(g[1], g[2], g[3], 20, st, <<0, 255>>, "REVERSE", 0)
          /\ twin = PID(-g[1], -g[2], -g[3], 20, st, <<0, 255>>, "DIRECT", 0)
    /\ call = NoCall
    /\ twinlog = [retuned |-> FALSE, steps |-> 0]
    /\ IdleLoop
    /\ IdleRecv
    /\ IdleTach
    /\ IdleStop
    /\ IdleWeb
    /\ IdleAux

TwinCompute ==
    \E m \in Measurements :
        /\ pid'  = compute(pid, m, now)
        /\ twin' = compute(twin, m, now)
        /\ call' = Logged(pid, pid')
        /\ twinlog' = [twinlog EXCEPT !.steps = IF call'.same_state THEN @ ELSE 1]
        /\ UNCHANGED <<now, fileVars, loopVars, recvVars, tachVars, stopVars, scenVars, schedVars, webVars>>

TwinSetSetpoint ==
    \E s \in Setpoints :
        /\ pid'  = [pid EXCEPT !.setpoint = s]
        /\ twin' = [twin EXCEPT !.setpoint = s]
        /\ call' = NoCall
        /\ UNCHANGED <<now, twinlog, fileVars, loopVars, recvVars, tachVars, stopVars, scenVars, schedVars, webVars>>

\* set_tuning(Kp, Ki, Kd) on the REVERSE controller, set_tuning(-Kp, -Ki, -Kd)
\* on the DIRECT one
TwinSetTuning ==
    \E g \in TwinGains :
        /\ pid'  = set_tuning(pid, g[1], g[2], g[3])
        /\ twin' = set_tuning(twin, -g[1], -g[2], -g[3])
        /\ call' = NoCall
        /\ twinlog' = [twinlog EXCEPT !.retuned = TRUE]
        /\ UNCHANGED <<now, fileVars, loopVars, recvVars, tachVars, stopVars, scenVars, schedVars, webVars>>

NextTwin ==
    \/ Tick
    \/ TwinCompute
    \/ TwinSetSetpoint
    \/ TwinSetTuning

SpecTwin == InitTwin /\ [][NextTwin]_vars

SameControl == pid.ITerm = twin.ITerm /\ pid.output = twin.output

\* C8 as stated: REVERSE with (Kp,Ki,Kd) and DIRECT with (-Kp,-Ki,-Kd) have the
\* same integral and output at every step, including after set_tuning.
C8_SameAfterRetune == SameControl

\* C8 amended: the two have the same stored gains, integral and output at
\* every step as long as set_tuning has not been called.
C8_SameUntilRetune ==
    ~twinlog.retuned =>
        /\ SameControl
        /\ <<pid.Kp, pid.Ki, pid.Kd>> = <<twin.Kp, twin.Ki, twin.Kd>>

\* an accepted compute() of the never-retuned pair with a non-zero integral
\* and an unsaturated output
C8_Witness ==
    /\ ~twinlog.retuned
    /\ twinlog.steps = 1
    /\ call.op = "compute"
    /\ pid.ITerm > 0
    /\ pid.output > 0
    /\ pid.output < 255

-----------------------------------------------------------------------------
(* The sensing node's control loop, the operator rewriting the config      *)
(* files, and a caller of the degradation injector: SpecLoop               *)

\* contents the operator (or anything else) leaves in setpoint_config.json
SetpointFiles ==
    { Absent,
      Garbage,
      Json("PID_SETPOINT" :> Num(40)),
      Json(("PID_SETPOINT" :> Num(42)) @@ ("PID_STATUS" :> Str("stopped"))),
      Json(("PID_STATUS" :> Str("RUNNING")) @@ ("OSCILLATION_ENABLED" :> Bool(TRUE))
           @@ ("OSCILLATION_A" :> Num(40)) @@ ("OSCILLATION_B" :> Num(42))
           @@ ("OSCILLATION_PERIOD_SEC" :> Num(4))),
      Json(("PID_STATUS" :> Str("RUNNING")) @@ ("OSCILLATION_ENABLED" :> Bool(TRUE))
           @@ ("OSCILLATION_PERIOD_SEC" :> Num(0))),
      Json(("PID_STATUS" :> Str("STOPPED")) @@ ("OSCILLATION_A" :> Str("abc"))),
      Json("PID_STATUS" :> Num(5)) }

\* contents of congestion_config.json
CongestionFiles ==
    { Absent,
      Garbage,
      Json(("CONGESTION_DELAY" :> Num(0)) @@ ("PACKET_LOSS_RATE" :> Num(0))),
      Json(("CONGESTION_DELAY" :> Num(50)) @@ ("PACKET_LOSS_RATE" :> Num(100))),
      Json(("delay" :> Num(25)) @@ ("loss" :> Num(30))),
      Json(("CONGESTION_DELAY" :> Num(50)) @@ ("PACKET_LOSS_RATE" :> Str("abc"))) }

\* what get_distance_cm returns: 0 on a timeout or hardware error, else a distance
Readings    == {0, 38, 41, 43}
\* time the sensor read takes, in ticks
ReadLatency == {0, 1}
\* values of random.random() * 100.0, which lies in [0, 100)
Draws       == {0, 50, 99}

InitLoop ==
    /\ now = 0
    /\ pid = InitialPID
    /\ call = NoCall
    /\ IdleTwin
    /\ current_state = InitialState
    /\ \/ setpoint_file = Absent /\ congestion_file = Absent
       \/ /\ setpoint_file = Json("PID_SETPOINT" :> Num(40))
          /\ congestion_file = Json(("CONGESTION_DELAY" :> Num(0))
                                    @@ ("PACKET_LOSS_RATE" :> Num(0)))
    /\ writes = 0
    /\ writer = NoWriter
    /\ alive = TRUE
    /\ iter = NoIter
    /\ inj = NoInj
    /\ IdleRecv
    /\ IdleTach
    /\ IdleStop
    /\ IdleWeb
    /\ IdleAux

\* the part of an iteration after the oscillation block: the STOPPED or the
\* sensor branch, the shared duty, the congestion step, the send and the
\* remaining sleep (lines 257-262 and 287-384)
FinishIteration(status, polls, cs, p, new_distance, lat, u) ==
    LET stopped == status = "STOPPED"
        duty0   == cs.current_duty
    IN \E br \in {IF stopped
                  THEN [duty |-> stopped_block(p, duty0).duty,
                        pid  |-> stopped_block(p, duty0).pid,
                        distance |-> cs.current_distance, computed |-> FALSE,
                        sensor_read |-> stopped_block(p, duty0).sensor_read]
                  ELSE sensor_block(p, duty0, new_distance, now + lat)} :
       \E cg \in {congestion_step(cs.delay, cs.loss_rate, u)} :
          /\ alive' = TRUE
          /\ current_state' = shared_duty_update(
                                 [cs EXCEPT !.current_distance = br.distance],
                                 br.duty, cg.packet_sent)
          /\ pid' = br.pid
          /\ iter' = [done        |-> TRUE,
                      status      |-> status,
                      fault       |-> ~stopped /\ new_distance <= 0,
                      computed    |-> br.computed,
                      pid_same    |-> Mutable(br.pid) = Mutable(p),
                      prev_duty   |-> duty0,
                      slept       |-> cg.slept,
                      packet_sent |-> cg.packet_sent,
                      sent        |-> IF cg.packet_sent THEN br.duty ELSE -1,
                      sp_ok       |-> polls.sp_ok,
                      sp_kept     |-> polls.sp_kept,
                      cg_ok       |-> polls.cg_ok,
                      cg_kept     |-> polls.cg_kept,
                      osc_ran     |-> ~stopped /\ cs.oscillation_enabled,
                      t           |-> now,
                      sensor_read |-> br.sensor_read,
                      delay       |-> cs.delay,
                      logged      |-> TRUE,
                      row         |-> log_row(current_state'),
                      prev_status |-> current_state.pid_status,
                      prev_iterm  |-> p.ITerm]
          /\ now' = now + Max(lat + cg.slept, p.sample_time)

\* one pass of the while loop of pid_control_thread_func (lines 244-384)
LoopIteration ==
    /\ alive
    /\ now < MaxLoopTime
    /\ \E new_distance \in Readings, lat \in ReadLatency, u \in Draws :
       \E cfg \in {update_runtime_configs(current_state, pid,
                                          setpoint_file, congestion_file)} :
       \E polls \in {[sp_ok   |-> cfg.sp_ok,
                      sp_kept |-> SetpointFields(cfg.cs) = SetpointFields(current_state),
                      cg_ok   |-> cfg.cg_ok,
                      cg_kept |-> CongestionFields(cfg.cs) = CongestionFields(current_state)]} :
       \E osc \in {IF cfg.cs.pid_status # "STOPPED" /\ cfg.cs.oscillation_enabled
                   THEN oscillation(cfg.cs, cfg.pid, now)
                   ELSE [cs |-> cfg.cs, pid |-> cfg.pid, raised |-> FALSE]} :
          IF osc.raised
          THEN \* the exception leaves the thread function: the thread ends
               /\ alive' = FALSE
               /\ current_state' = cfg.cs
               /\ pid' = cfg.pid
               /\ iter' = [NoIter EXCEPT !.status = cfg.cs.pid_status,
                                         !.prev_duty = cfg.cs.current_duty,
                                         !.sp_ok = polls.sp_ok, !.sp_kept = polls.sp_kept,
                                         !.cg_ok = polls.cg_ok, !.cg_kept = polls.cg_kept]
               /\ UNCHANGED now
          ELSE FinishIteration(cfg.cs.pid_status, polls, osc.cs, osc.pid,
                               new_distance, lat, u)
    /\ inj' = NoInj
    /\ UNCHANGED <<call, twinVars, fileVars, recvVars, tachVars, stopVars, scenVars, schedVars, webVars>>

\* the operator process (or anything else) replaces setpoint_config.json
WriteSetpointFile ==
    /\ writes < MaxWrites
    /\ \E f \in SetpointFiles \ {setpoint_file} : setpoint_file' = f
    /\ writes' = writes + 1
    /\ iter' = NoIter
    /\ inj' = NoInj
    /\ UNCHANGED <<now, pidVars, twinVars, congestion_file, writer, current_state, alive, recvVars, tachVars, stopVars, scenVars, schedVars, webVars>>

\* the operator process (or anything else) replaces congestion_config.json
WriteCongestionFile ==
    /\ writes < MaxWrites
    /\ \E f \in CongestionFiles \ {congestion_file} : congestion_file' = f
    /\ writes' = writes + 1
    /\ iter' = NoIter
    /\ inj' = NoInj
    /\ UNCHANGED <<now, pidVars, twinVars, setpoint_file, writer, current_state, alive, recvVars, tachVars, stopVars, scenVars, schedVars, webVars>>

\* a call of inject_delay_and_check_loss; the caller sleeps for the delay
InjectorCall ==
    /\ now < MaxLoopTime
    /\ \E u \in Draws :
          /\ inj' = inject_delay_and_check_loss(congestion_file, u)
          /\ now' = now + inj'.slept
    /\ UNCHANGED <<pidVars, twinVars, fileVars, current_state, alive, iter, recvVars, tachVars, stopVars, scenVars, schedVars, webVars>>

NextLoop ==
    \/ LoopIteration
    \/ WriteSetpointFile
    \/ WriteCongestionFile
    \/ InjectorCall

SpecLoop == InitLoop /\ [][NextLoop]_vars

-----------------------------------------------------------------------------
(* Claims about the sensing loop and the injector under SpecLoop *)

\* C3: in a RUNNING iteration whose sensor read reports a fault, compute() is
\* not called and the duty recorded and transmitted equals the duty of the
\* previous iteration.
C3_FaultKeepsDuty ==
    (iter.done /\ iter.status # "STOPPED" /\ iter.fault) =>
        /\ ~iter.computed
        /\ iter.pid_same
        /\ current_state.current_duty = iter.prev_duty
        /\ (iter.packet_sent => iter.sent = iter.prev_duty)

\* a fault in a RUNNING iteration that follows an iteration with a non-zero
\* duty, the retained duty being transmitted
C3_Witness ==
    /\ iter.done
    /\ iter.status = "RUNNING"
    /\ iter.fault
    /\ iter.prev_duty > 0
    /\ iter.sent = iter.prev_duty
    /\ pid.output > 0

\* C4: in every iteration that observes STOPPED the duty stored in shared
\* state is 0, the controller is reset (initialize: the integral is the clamped
\* last output, the last input is 0) and no non-zero duty is transmitted.
C4_StoppedForcesZero ==
    (iter.done /\ iter.status = "STOPPED") =>
        /\ current_state.current_duty = 0
        /\ ~iter.computed
        /\ pid.ITerm = Clamp(pid.output, pid.output_limits)
        /\ pid.last_input = 0
        /\ iter.sent \in {-1, 0}

\* a STOPPED iteration right after the loop drove a non-zero duty, sending 0
C4_Witness ==
    /\ iter.done
    /\ iter.status = "STOPPED"
    /\ iter.prev_duty > 0
    /\ iter.sent = 0
    /\ pid.output > 0
    /\ pid.ITerm = pid.output

\* C6: for every content of the config files each iteration completes and the
\* loop keeps running: no exception escapes pid_control_thread_func.
C6_LoopSurvivesAnyConfig == alive

\* C7: a config poll that fails leaves every in-memory value taken from that
\* file exactly as it was before the poll.
C7_FailedPollKeepsValues ==
    /\ ~iter.sp_ok => iter.sp_kept
    /\ ~iter.cg_ok => iter.cg_kept

\* C9: with delay 0 and loss 0 the injector reports deliver on every call and
\* never sleeps, in inject_delay_and_check_loss and in the loop's inline step.
C9_ZeroZeroPassThrough ==
    /\ (iter.done /\ current_state.delay = 0 /\ current_state.loss_rate = 0) =>
          /\ iter.slept = 0
          /\ iter.packet_sent
          /\ iter.sent = current_state.current_duty
    /\ (inj.result # "none" /\ inj.delay = 0 /\ inj.loss = 0) =>
          /\ inj.slept = 0
          /\ inj.result = "sent"

\* after the operator wrote a config, an iteration and an injector call both
\* ran with delay 0 and loss 0
C9_Witness ==
    /\ writes > 0
    /\ iter.done
    /\ current_state.delay = 0
    /\ current_state.loss_rate = 0
    /\ iter.sent > 0
    /\ inj.result = "sent"
    /\ inj.delay = 0
    /\ inj.loss = 0

\* C10: with loss rate 100 the injector reports drop on every call, for every
\* value of the random draw, so the loop transmits no duty command.
C10_FullLossAlwaysDrops ==
    /\ (iter.done /\ current_state.loss_rate = 100) =>
          /\ ~iter.packet_sent
          /\ iter.sent = -1
    /\ (inj.result # "none" /\ inj.loss = 100) => inj.result = "dropped"

\* an iteration that computed a non-zero duty and an injector call, both
\* under loss rate 100
C10_Witness ==
    /\ iter.done
    /\ current_state.loss_rate = 100
    /\ current_state.current_duty > 0
    /\ iter.computed
    /\ inj.result = "dropped"
    /\ inj.loss = 100

\* C11: in a completed RUNNING iteration with oscillation enabled, entered at
\* time t, the setpoint of the controller and of the shared state is level a
\* when floor(t / period) mod 2 = 0 and level b otherwise, and the recorded
\* time until the switch is period - (t mod period): a function of t, period
\* and the two levels alone.
C11_SquareWaveOfWallClock ==
    (iter.done /\ iter.osc_ran) =>
        LET period == current_state.oscillation_period
            level  == IF (iter.t \div period) % 2 = 0
                      THEN current_state.oscillation_a
                      ELSE current_state.oscillation_b
        IN /\ pid.setpoint = level
           /\ current_state.pid_setpoint = level
           /\ iter.row.setpoint = level
           /\ current_state.pid_switch_in = period - (iter.t % period)

\* an iteration in the second level of the schedule, part of the way through
\* the period, that ran the controller
C11_Witness ==
    /\ iter.done
    /\ iter.osc_ran
    /\ iter.computed
    /\ current_state.oscillation_a # current_state.oscillation_b
    /\ pid.setpoint = current_state.oscillation_b
    /\ current_state.pid_switch_in < current_state.oscillation_period

\* C15 as stated: in an iteration that observes STOPPED the distance sensor is
\* not read, compute() is not called, no delay is slept and no duty command
\* is transmitted.
C15_StoppedSkipsReadAndSend ==
    (iter.done /\ iter.status = "STOPPED") =>
        /\ ~iter.sensor_read
        /\ ~iter.computed
        /\ iter.slept = 0
        /\ iter.sent = -1

\* C15 amended: in an iteration that observes STOPPED compute() is not called,
\* but the sensor is still read, the configured delay is still slept and,
\* unless the loss draw drops it, the duty command 0 is transmitted.
C15_StoppedSkipsComputeOnly ==
    (iter.done /\ iter.status = "STOPPED") =>
        /\ ~iter.computed
        /\ iter.sensor_read
        /\ iter.slept = (IF iter.delay > 0 THEN Quot(iter.delay, MsPerTick) ELSE 0)
        /\ iter.packet_sent => iter.sent = 0
        /\ current_state.loss_rate = 0 => iter.packet_sent

\* a STOPPED iteration under a configured delay that slept and then sent 0
C15_Witness ==
    /\ iter.done
    /\ iter.status = "STOPPED"
    /\ iter.sensor_read
    /\ iter.delay > 0
    /\ iter.slept > 0
    /\ iter.sent = 0

\* C16: as long as the setpoint config file is as it was at startup, absent or
\* without a PID_STATUS key, so that no poll can have read RUNNING from it,
\* every iteration observes STOPPED, stores duty 0 and does not run the
\* controller.
C16_StartsStopped ==
    (iter.done /\ writes = 0) =>
        /\ iter.status = "STOPPED"
        /\ current_state.current_duty = 0
        /\ ~iter.computed

\* C17 as stated: on a valid reading a computed output of exactly 0 yields
\* duty 0, a positive output below MIN_DUTY yields MIN_DUTY, and an output at
\* or above the floor is passed through, capped at 255.
C17_FloorOnlyForPositiveOutput ==
    (iter.done /\ iter.computed) =>
        current_state.current_duty =
            IF pid.output = 0 THEN 0
            ELSE IF pid.output < MIN_DUTY * OutScale THEN MIN_DUTY
            ELSE Quot(Min(255 * OutScale, pid.output), OutScale)

\* C17 amended: on a valid reading every computed output below MIN_DUTY, zero
\* included, yields MIN_DUTY, and an output at or above the floor is passed
\* through as an integer, capped at 255.
C17_FloorForEveryLowOutput ==
    (iter.done /\ iter.computed) =>
        /\ current_state.current_duty =
              IF pid.output < MIN_DUTY * OutScale THEN MIN_DUTY
              ELSE Quot(Min(255 * OutScale, pid.output), OutScale)
        /\ current_state.current_duty >= MIN_DUTY
        /\ current_state.current_duty <= 255

\* a valid reading for which the controller returned exactly 0
C17_Witness ==
    /\ iter.done
    /\ iter.computed
    /\ ~iter.pid_same
    /\ pid.output = 0
    /\ current_state.current_duty = MIN_DUTY
    /\ iter.sent = MIN_DUTY

\* the duty an iteration arrives at: 0 when STOPPED, the previous duty on a
\* sensor fault, else the floored and capped controller output
IterationDuty ==
    IF iter.status = "STOPPED" THEN 0
    ELSE IF ~iter.computed THEN iter.prev_duty
    ELSE IF pid.output < MIN_DUTY * OutScale THEN MIN_DUTY
    ELSE Quot(Min(255 * OutScale, pid.output), OutScale)

\* C18: every completed iteration produces a log sample, and the shared
\* current_duty and the sample both carry the duty of that iteration; when
\* the congestion step reports drop, no duty command is transmitted and they
\* carry that duty all the same.
C18_DropStillRecordsDuty ==
    iter.done =>
        /\ iter.logged
        /\ current_state.current_duty = IterationDuty
        /\ iter.row.duty = IterationDuty
        /\ iter.row.loss_rate = current_state.loss_rate
        /\ ~iter.packet_sent => iter.sent = -1

\* a dropped iteration whose computed duty differs from the one before
C18_Witness ==
    /\ iter.done
    /\ ~iter.packet_sent
    /\ iter.computed
    /\ current_state.current_duty # iter.prev_duty
    /\ iter.prev_duty > 0
    /\ iter.row.duty = current_state.current_duty

-----------------------------------------------------------------------------
\* C21: after a RUNNING -> STOPPED -> RUNNING sequence, the integral the
\* first compute after resuming starts from carries nothing over from before
\* the stop: it is 0, and in particular not the saturated output.
C21_ResumeStartsFromFreshIntegral ==
    (iter.done /\ iter.prev_status = "STOPPED" /\ iter.status # "STOPPED"
               /\ iter.computed) =>
        iter.prev_iterm = 0

-----------------------------------------------------------------------------
(* The operator process updating the config files through                   *)
(* update_status_file while the sensing loop polls them: SpecStore          *)

\* update_status_file that starts from an empty dictionary whatever the file
\* holds
update_status_file_fresh(f, key, value) ==
    CASE f.kind \in {"absent", "json"} -> [ok |-> TRUE, data |-> key :> value]
      [] OTHER                         -> [ok |-> FALSE, data |-> EmptyObject]

\* web_app/master_controller.py, update_status_file, up to data[key] = value:
\* the object to write, or failure when the existing file cannot be loaded
\* or holds no object
update_status_file(f, key, value) ==
    CASE f.kind = "absent" -> [ok |-> TRUE, data |-> key :> value]
      [] f.kind = "json"   -> [ok |-> TRUE, data |-> (key :> value) @@ f.obj]
      [] OTHER             -> [ok |-> FALSE, data |-> EmptyObject]

\* (file, key, value) of the updates the dashboard handlers make: start and
\* stop, a setpoint, the oscillation switch and a level, congestion values;
\* the handlers pass the operator's values on as they come
OperatorUpdates ==
    { <<"setpoint", "PID_STATUS", Str("STOPPED")>>,
      <<"setpoint", "PID_STATUS", Str("RUNNING")>>,
      <<"setpoint", "PID_SETPOINT", Num(42)>>,
      <<"setpoint", "OSCILLATION_ENABLED", Bool(TRUE)>>,
      <<"setpoint", "OSCILLATION_A", Str("abc")>>,
      <<"congestion", "CONGESTION_DELAY", Num(50)>>,
      <<"congestion", "PACKET_LOSS_RATE", Num(100)>> }

FileOf(name) == IF name = "setpoint" THEN setpoint_file ELSE congestion_file

\* the named file gets content f, the other one stays
PutFile(name, f) ==
    /\ setpoint_file'   = IF name = "setpoint" THEN f ELSE setpoint_file
    /\ congestion_file' = IF name = "setpoint" THEN congestion_file ELSE f

\* update_status_file reads the file, sets the key and opens the file for
\* writing, which empties it (lines 117-124)
BeginUpdate ==
    /\ ~writer.busy
    /\ writes < MaxWrites
    /\ \E c \in OperatorUpdates :
       \E u \in {update_status_file(FileOf(c[1]), c[2], c[3])} :
          /\ u.ok
          /\ Json(u.data) # FileOf(c[1])
          /\ writer' = [busy |-> TRUE, file |-> c[1], data |-> u.data]
          /\ PutFile(c[1], Truncated)
    /\ iter' = NoIter
    /\ inj' = NoInj
    /\ UNCHANGED <<now, pidVars, twinVars, writes, current_state, alive,
                   recvVars, tachVars, stopVars, scenVars, schedVars, webVars>>

\* json.dump has written a first part of the text (line 125)
PartialWrite ==
    /\ writer.busy
    /\ FileOf(writer.file) = Truncated
    /\ PutFile(writer.file, Partial)
    /\ iter' = NoIter
    /\ inj' = NoInj
    /\ UNCHANGED <<now, pidVars, twinVars, writes, writer, current_state, alive,
                   recvVars, tachVars, stopVars, scenVars, schedVars, webVars>>

\* json.dump has written everything and the file is closed (line 125)
FinishUpdate ==
    /\ writer.busy
    /\ PutFile(writer.file, Json(writer.data))
    /\ writer' = NoWriter
    /\ writes' = writes + 1
    /\ iter' = NoIter
    /\ inj' = NoInj
    /\ UNCHANGED <<now, pidVars, twinVars, current_state, alive,
                   recvVars, tachVars, stopVars, scenVars, schedVars, webVars>>

\* one pass of the control loop, while the operator is at work
StoreIteration ==
    /\ now < MaxStoreTime
    /\ LoopIteration

NextStore ==
    \/ StoreIteration
    \/ BeginUpdate
    \/ PartialWrite
    \/ FinishUpdate

SpecStore == InitLoop /\ [][NextStore]_vars

C20_PollDuringWriteAdoptsNothing ==
    /\ (iter.done /\ writer.busy /\ writer.file = "setpoint") =>
          /\ ~iter.sp_ok
          /\ iter.sp_kept
    /\ (iter.done /\ writer.busy /\ writer.file = "congestion") =>
          /\ ~iter.cg_ok
          /\ iter.cg_kept
          /\ iter.delay = current_state.delay

\* a poll of a partly written congestion file, made while the values of an
\* earlier completed write are in memory
C20_Witness ==
    /\ iter.done
    /\ writer.busy
    /\ writer.file = "congestion"
    /\ congestion_file = Partial
    /\ current_state.delay = 50
    /\ "PACKET_LOSS_RATE" \in DOMAIN writer.data

-----------------------------------------------------------------------------
(* A freshly constructed controller fed a script of measurements, one per   *)
(* sample period: SpecScen                                                  *)

\* ticks per sample period of 0.05 s
ScenUnits == {1, 2}
\* scripts of measurements
ScenSequences == {<<20, 20, 18, 18>>, <<20, 18, 18, 20>>,
                  <<18, 18, 18, 18>>, <<22, 20, 20, 22>>}
\* output limits the controller is constructed with; the first is the default
ScenLimits == {<<0, 255>>, <<-255, 255>>}

\* PID(Kp=300, Ki=0, Kd=0.6, setpoint=20, sample_time=0.05) with u ticks per
\* sample period: Kd is 0.6 s = 12 sample periods = 12 * u ticks
InitScen ==
    /\ now = 0
    /\ \E u \in ScenUnits, d \in Directions, l \in ScenLimits :
          pid = PID(300, 0, 12 * u, 20, u, l, d, 0)
    /\ call = NoCall
    /\ \E q \in ScenSequences : scen = [NoScen EXCEPT !.seq = q]
    /\ sched = NoSched
    /\ IdleTwin
    /\ IdleLoop
    /\ IdleRecv
    /\ IdleTach
    /\ IdleStop
    /\ IdleWeb

\* the caller waits one sample period and passes the next measurement to
\* compute(); scen keeps the value returned and the derivative term
\* Kd * d_input that the call formed
ScenStep ==
    /\ Len(scen.outs) < Len(scen.seq)
    /\ now' = now + pid.sample_time
    /\ \E m \in {scen.seq[Len(scen.outs) + 1]} :
          /\ pid' = compute(pid, m, now')
          /\ scen' = [scen EXCEPT !.outs = Append(@, pid'.output),
                                  !.dterms = Append(@, pid.Kd * (m - pid.last_input))]
    /\ call' = [op |-> "compute", early |-> FALSE,
                same_ret |-> pid'.output = pid.output,
                same_state |-> Mutable(pid') = Mutable(pid)]
    /\ UNCHANGED <<twinVars, fileVars, loopVars, recvVars, tachVars, stopVars, schedVars, webVars>>

NextScen == ScenStep

SpecScen == InitScen /\ [][NextScen]_vars

\* the controller and the script of the claim: default direction and limits
ClaimedScenario ==
    /\ scen.seq = <<20, 20, 18, 18>>
    /\ pid.controller_direction = "DIRECT"
    /\ pid.output_limits = <<0, 255>>

\* C14: the default-constructed controller with Kp=300, Ki=0, Kd=0.6, sample
\* period 0.05 s and setpoint 20, fed 20, 20, 18, 18 one per sample period,
\* returns 0 at steps 1 and 2, a positive output at step 3, and at step 4 the
\* clamped error term Kp * error alone, the derivative term being zero.
C14_ScenarioOutputs ==
    ClaimedScenario =>
        /\ Len(scen.outs) >= 1 => scen.outs[1] = 0
        /\ Len(scen.outs) >= 2 => scen.outs[2] = 0
        /\ Len(scen.outs) >= 3 => scen.outs[3] > 0
        /\ Len(scen.outs) >= 4 =>
              /\ scen.dterms[4] = 0
              /\ pid.ITerm = 0
              /\ scen.outs[4] = Clamp(pid.Kp * (pid.setpoint - 18), pid.output_limits)
              /\ scen.outs[4] > 0

\* the claimed run after its fourth step
C14_Witness ==
    /\ ClaimedScenario
    /\ Len(scen.outs) = 4
    /\ scen.outs[3] > 0
    /\ scen.dterms[3] # 0
    /\ pid.last_input = 18
    /\ now = 4 * pid.sample_time

-----------------------------------------------------------------------------
(* The setpoint schedule over wall-clock time: the oscillation block of a   *)
(* RUNNING loop evaluated at successive instants: SpecSched                 *)

\* (level a, level b, period): the program's defaults (20 cm, 30 cm, 20 s) and
\* short periods
Schedules == {<<40, 60, 800>>, <<40, 42, 4>>, <<60, 40, 3>>, <<40, 60, 1>>}
\* a longer stretch of time between two evaluations, in ticks
SchedJumps == {100}

InitSched ==
    /\ now = 0
    /\ pid = InitialPID
    /\ call = NoCall
    /\ IdleTwin
    /\ \E sc \in Schedules :
          current_state = [InitialState EXCEPT !.oscillation_enabled = TRUE,
                                               !.oscillation_a = sc[1],
                                               !.oscillation_b = sc[2],
                                               !.oscillation_period = sc[3]]
    /\ setpoint_file = Absent
    /\ congestion_file = Absent
    /\ writes = 0
    /\ writer = NoWriter
    /\ alive = TRUE
    /\ iter = NoIter
    /\ inj = NoInj
    /\ IdleRecv
    /\ IdleTach
    /\ IdleStop
    /\ IdleWeb
    /\ IdleAux

\* the oscillation block runs at time t; seen tells whether it also ran at the
\* instant just before, whose target and switch_in are then kept in sched
EvaluateAt(t, seen) ==
    /\ t <= MaxSchedTime
    /\ now' = t
    /\ \E r \in {oscillation(current_state, pid, t)} :
          /\ ~r.raised
          /\ current_state' = r.cs
          /\ pid' = r.pid
    /\ sched' = IF seen
                THEN [n |-> 2, target |-> current_state.pid_setpoint,
                      switch_in |-> current_state.pid_switch_in]
                ELSE [NoSched EXCEPT !.n = 1]
    /\ UNCHANGED <<call, twinVars, fileVars, alive, iter, inj, recvVars, tachVars, stopVars, scenVars, webVars>>

\* the first evaluation, when the loop starts
SchedStart ==
    /\ sched.n = 0
    /\ EvaluateAt(now, FALSE)

\* the next evaluation, one tick later
SchedTick ==
    /\ sched.n > 0
    /\ EvaluateAt(now + 1, TRUE)

\* the next evaluation, a longer time later
SchedJump ==
    /\ sched.n > 0
    /\ \E d \in SchedJumps : EvaluateAt(now + d, FALSE)

NextSched ==
    \/ SchedStart
    \/ SchedTick
    \/ SchedJump

SpecSched == InitSched /\ [][NextSched]_vars

\* the schedule of the claim: period 20 s, levels 20 cm and 30 cm
DefaultSchedule ==
    /\ current_state.oscillation_period = 800
    /\ current_state.oscillation_a = 40
    /\ current_state.oscillation_b = 60

\* C12 as stated: with period 20 s, levels 20 and 30, the setpoint is 20 in
\* the half of each period where t mod 20 < 10 and 30 in the other half.
C12_AlternatesEveryHalfPeriod ==
    (sched.n > 0 /\ DefaultSchedule) =>
        pid.setpoint = IF now % 800 < 400 THEN 40 ELSE 60

\* C12 amended: with period 20 s, levels 20 and 30, the setpoint is 20 while
\* t mod 40 < 20 and 30 otherwise: each level is held for a whole period and
\* the two levels alternate every period.
C12_AlternatesEveryPeriod ==
    (sched.n > 0 /\ DefaultSchedule) =>
        /\ pid.setpoint = (IF now % 1600 < 800 THEN 40 ELSE 60)
        /\ current_state.pid_setpoint = pid.setpoint

\* the default schedule in the first half of its second period, at level 30
C12_Witness ==
    /\ sched.n > 0
    /\ DefaultSchedule
    /\ now >= 800
    /\ now < 1200
    /\ pid.setpoint = 60
    /\ current_state.pid_next_setpoint = 40

\* C13: the recorded time until the switch stays in (0, period]; from one
\* instant to the next it strictly decreases while the setpoint keeps its
\* level, and it is back at period exactly when the setpoint changes level.
C13_SwitchInCountsDown ==
    /\ sched.n > 0 =>
          /\ current_state.pid_switch_in > 0
          /\ current_state.pid_switch_in <= current_state.oscillation_period
    /\ sched.n = 2 =>
          /\ (current_state.pid_setpoint # sched.target)
                 <=> (current_state.pid_switch_in = current_state.oscillation_period)
          /\ (current_state.pid_setpoint = sched.target)
                 => (current_state.pid_switch_in < sched.switch_in)

\* the instant of a switch: the countdown had reached its last tick and is
\* back at a period longer than one tick
C13_Witness ==
    /\ sched.n = 2
    /\ current_state.pid_setpoint # sched.target
    /\ sched.switch_in = 1
    /\ current_state.pid_switch_in = current_state.oscillation_period
    /\ current_state.oscillation_period > 1
    /\ now > current_state.oscillation_period

-----------------------------------------------------------------------------
(* The controller's reset, retune, sample-time and direction methods called *)
(* in any order between compute() calls: SpecTune                           *)

\* (Kp, Ki, Kd) a caller passes to set_tuning; the last three have one
\* negative gain each
TuneGains == {<<3, 1, 2>>, <<1, 0, 4>>, <<-1, 1, 2>>, <<3, -1, 2>>, <<3, 1, -2>>}

Gains(p) == <<p.Kp, p.Ki, p.Kd>>

\* observation of a method call: the method, its arguments, the object before
\* the call; reset_m is the measurement of the last accepted compute() before
\* an initialize() that no accepted compute() has followed yet (-1: none), and
\* first_after_reset marks an accepted compute() that is the first one after an
\* initialize() and is given that same measurement
NoTune == [op |-> "none", args |-> << >>, before |-> IdlePID,
           reset_m |-> -1, first_after_reset |-> FALSE]

Observed(op, args) ==
    [op |-> op, args |-> args, before |-> pid,
     reset_m |-> call.reset_m, first_after_reset |-> FALSE]

InitTune ==
    /\ now = 0
    /\ \E d \in Directions : pid = PID(3, 1, 2, 20, 1, <<0, 255>>, d, 0)
    /\ call = NoTune
    /\ IdleTwin
    /\ IdleLoop
    /\ IdleRecv
    /\ IdleTach
    /\ IdleStop
    /\ IdleWeb
    /\ IdleAux

TuneTick ==
    /\ now < MaxTuneTime
    /\ now' = now + 1
    /\ UNCHANGED <<pidVars, twinVars, fileVars, loopVars, recvVars, tachVars, stopVars, scenVars, schedVars, webVars>>

TuneCompute ==
    \E m \in Measurements :
        /\ pid' = compute(pid, m, now)
        /\ call' = IF now - pid.last_time >= pid.sample_time
                   THEN [Observed("compute", <<m>>) EXCEPT
                            !.reset_m = -1,
                            !.first_after_reset = (call.reset_m = m)]
                   ELSE Observed("compute", <<m>>)
        /\ UNCHANGED <<now, twinVars, fileVars, loopVars, recvVars, tachVars, stopVars, scenVars, schedVars, webVars>>

TuneInitialize ==
    /\ pid' = initialize(pid)
    /\ call' = [Observed("initialize", << >>) EXCEPT
                   !.reset_m = IF call.reset_m # -1 THEN call.reset_m
                               ELSE IF pid.last_time > 0 THEN pid.last_input
                               ELSE -1]
    /\ UNCHANGED <<now, twinVars, fileVars, loopVars, recvVars, tachVars, stopVars, scenVars, schedVars, webVars>>

TuneSetTuning ==
    \E g \in TuneGains :
        /\ pid' = set_tuning(pid, g[1], g[2], g[3])
        /\ call' = Observed("set_tuning", g)
        /\ UNCHANGED <<now, twinVars, fileVars, loopVars, recvVars, tachVars, stopVars, scenVars, schedVars, webVars>>

TuneSetSampleTime ==
    \E st \in SampleTimes \cup {0} :
        /\ pid' = set_sample_time(pid, st)
        /\ call' = Observed("set_sample_time", <<st>>)
        /\ UNCHANGED <<now, twinVars, fileVars, loopVars, recvVars, tachVars, stopVars, scenVars, schedVars, webVars>>

TuneSetControllerDirection ==
    \E d \in Directions :
        /\ pid' = set_controller_direction(pid, d)
        /\ call' = Observed("set_controller_direction", <<d>>)
        /\ UNCHANGED <<now, twinVars, fileVars, loopVars, recvVars, tachVars, stopVars, scenVars, schedVars, webVars>>

NextTune ==
    \/ TuneTick
    \/ TuneCompute
    \/ TuneInitialize
    \/ TuneSetTuning
    \/ TuneSetSampleTime
    \/ TuneSetControllerDirection

SpecTune == InitTune /\ [][NextTune]_vars

\* C22: initialize() sets the integral to the last output clamped to the
\* limits, and the first accepted compute() after it, given the measurement
\* of the last accepted compute() before it, has a zero derivative term.
C22_ResetIsBumpless ==
    /\ call.op = "initialize" =>
          pid.ITerm = Clamp(call.before.output, pid.output_limits)
    /\ (call.op = "compute" /\ call.first_after_reset) =>
          call.before.Kd * (call.args[1] - call.before.last_input) = 0

\* C23: set_controller_direction("REVERSE") on a DIRECT controller leaves Kp,
\* Ki and Kd the negatives of their previous values.
C23_DirectionNegatesGains ==
    (call.op = "set_controller_direction" /\ call.args = <<"REVERSE">>
        /\ call.before.controller_direction = "DIRECT") =>
        Gains(pid) = <<-call.before.Kp, -call.before.Ki, -call.before.Kd>>

\* C24: a set_tuning call with any of Kp, Ki, Kd negative changes no field of
\* the controller.
C24_NegativeTuningRejected ==
    (call.op = "set_tuning"
        /\ (call.args[1] < 0 \/ call.args[2] < 0 \/ call.args[3] < 0)) =>
        pid = call.before

\* a rejected retune with only Kd negative, on a REVERSE controller whose
\* sample time was changed and which holds a non-zero output
C24_Witness ==
    /\ call.op = "set_tuning"
    /\ call.args = <<3, 1, -2>>
    /\ pid.controller_direction = "REVERSE"
    /\ pid.sample_time = 2
    /\ pid.output > 0
    /\ Gains(pid) = <<-3, -2, -1>>

\* C25: after set_tuning with non-negative gains the stored gains are those of
\* a controller constructed with the same Kp, Ki, Kd and the current sample
\* time and direction, also after set_sample_time changed the sample time.
C25_RetuneMatchesConstruction ==
    (call.op = "set_tuning"
        /\ call.args[1] >= 0 /\ call.args[2] >= 0 /\ call.args[3] >= 0) =>
        Gains(pid) = Gains(PID(call.args[1], call.args[2], call.args[3],
                               pid.setpoint, pid.sample_time, pid.output_limits,
                               pid.controller_direction, 0))

\* a retune of a REVERSE controller whose sample time set_sample_time has
\* changed from the constructed 1 to 2
C25_Witness ==
    /\ call.op = "set_tuning"
    /\ call.args = <<1, 0, 4>>
    /\ pid.sample_time = 2
    /\ call.before.sample_time = 2
    /\ pid.controller_direction = "REVERSE"
    /\ Gains(call.before) = <<-3, -2, -1>>
    /\ Gains(pid) = <<-1, 0, -2>>

-----------------------------------------------------------------------------
(* compute() calls with the setpoint attribute assigned between them:      *)
(* SpecDeriv                                                               *)

MaxDerivTime == 3

\* non-negative (Kp, Ki, Kd) the controller is constructed with
DerivGains == {<<3, 1, 2>>, <<1, 0, 4>>}

\* observation of a call: the object before it, whether compute() passed the
\* sample-time gate of line 37, the measurement and the setpoint of the
\* accepted compute() before this one (-1: none) and of the last accepted one
NoDeriv == [op |-> "none", m |-> -1, before |-> IdlePID, accepted |-> FALSE,
            prev_m |-> -1, prev_sp |-> -1, last_m |-> -1, last_sp |-> -1]

InitDeriv ==
    /\ now = 0
    /\ \E g \in DerivGains, d \in Directions :
          pid = PID(g[1], g[2], g[3], 20, 1, <<0, 255>>, d, 0)
    /\ call = NoDeriv
    /\ IdleTwin
    /\ IdleLoop
    /\ IdleRecv
    /\ IdleTach
    /\ IdleStop
    /\ IdleWeb
    /\ IdleAux

DerivTick ==
    /\ now < MaxDerivTime
    /\ now' = now + 1
    /\ UNCHANGED <<pidVars, twinVars, fileVars, loopVars, recvVars, tachVars, stopVars, scenVars, schedVars, webVars>>

DerivCompute ==
    \E m \in Measurements :
        /\ pid' = compute(pid, m, now)
        /\ call' = IF now - pid.last_time >= pid.sample_time
                   THEN [op |-> "compute", m |-> m, before |-> pid,
                         accepted |-> TRUE,
                         prev_m |-> call.last_m, prev_sp |-> call.last_sp,
                         last_m |-> m, last_sp |-> pid.setpoint]
                   ELSE [call EXCEPT !.op = "compute", !.m = m, !.before = pid,
                                     !.accepted = FALSE]
        /\ UNCHANGED <<now, twinVars, fileVars, loopVars, recvVars, tachVars, stopVars, scenVars, schedVars, webVars>>

\* the caller assigns the setpoint attribute (line 7 names it; it has no setter)
DerivSetSetpoint ==
    \E s \in Setpoints :
        /\ pid' = [pid EXCEPT !.setpoint = s]
        /\ call' = [call EXCEPT !.op = "setpoint", !.before = pid,
                                !.accepted = FALSE]
        /\ UNCHANGED <<now, twinVars, fileVars, loopVars, recvVars, tachVars, stopVars, scenVars, schedVars, webVars>>

NextDeriv ==
    \/ DerivTick
    \/ DerivCompute
    \/ DerivSetSetpoint

SpecDeriv == InitDeriv /\ [][NextDeriv]_vars

\* C34: the output of an accepted compute() is clamp(Kp*error + integral -
\* Kd*(measurement - measurement of the previous accepted compute())), so with
\* an unchanged measurement it is clamp(Kp*error + integral) whatever the
\* setpoint was at the previous accepted compute().
C34_DerivativeOnMeasurement ==
    (call.op = "compute" /\ call.accepted /\ call.prev_m # -1) =>
        LET error == pid.setpoint - call.m
        IN /\ pid.output = Clamp(pid.Kp * error + pid.ITerm
                                     - pid.Kd * (call.m - call.prev_m),
                                 pid.output_limits)
           /\ call.m = call.prev_m =>
                  pid.output = Clamp(pid.Kp * error + pid.ITerm, pid.output_limits)

\* an accepted compute() with the measurement of the previous accepted one
\* after the setpoint went from 30 to 20, with a derivative gain and an
\* output strictly inside the limits
C34_Witness ==
    /\ call.op = "compute"
    /\ call.accepted
    /\ call.m = call.prev_m
    /\ call.prev_sp = 30
    /\ pid.setpoint = 20
    /\ pid.Kd # 0
    /\ pid.output > 0
    /\ pid.output < 255

-----------------------------------------------------------------------------
(* The actuation node's command receiver and the datagrams sent to it:     *)
(* SpecRecv                                                                *)

IdlePIDSide ==
    /\ now = 0
    /\ pid = IdlePID
    /\ call = NoCall

\* main() of fan_receiver.py has set the duty cycle to 0 and started the thread
InitRecv ==
    /\ IdlePIDSide
    /\ IdleTwin
    /\ IdleLoop
    /\ IdleAux
    /\ IdleTach
    /\ IdleStop
    /\ IdleWeb
    /\ rxq = << >>
    /\ pwm = 0
    /\ rxlog = NoRecv
    /\ fan = NoFan

\* a datagram reaches the command socket and is queued by the kernel
Arrive ==
    /\ fan.receiver = "running"
    /\ Len(rxq) < MaxQueue
    /\ \E d \in Payloads : rxq' = Append(rxq, d)
    /\ rxlog' = NoRecv
    /\ UNCHANGED <<now, pidVars, twinVars, fileVars, loopVars, pwm, fan, scenVars,
                   schedVars, tachVars, stopVars, webVars>>

\* a loop that never tests stop_event
loop_condition_unchecked(f) == f

\* the loop condition of line 83, evaluated after a pass
loop_condition(f) ==
    IF f.stop_event THEN [f EXCEPT !.receiver = "ended"] ELSE f

\* one pass of the receive loop with a datagram waiting (lines 83-100):
\* recvfrom returns the oldest queued datagram; ValueError and every other
\* exception of the body are caught inside the loop, which then tests
\* stop_event again
Receive ==
    /\ fan.receiver = "running"
    /\ rxq # << >>
    /\ \E h \in {handle_datagram(Head(rxq), pwm)} :
          /\ pwm' = h.pwm
          /\ fan' = loop_condition([fan EXCEPT !.any_received = TRUE])
          /\ rxlog' = [applied       |-> h.applied,
                       behind        |-> Len(rxq) - 1,
                       received      |-> TRUE,
                       prev_pwm      |-> pwm,
                       pwm_after     |-> h.pwm,
                       stopping      |-> fan.stop_event,
                       running_after |-> fan'.receiver = "running"]
    /\ rxq' = Tail(rxq)
    /\ UNCHANGED <<now, pidVars, twinVars, fileVars, loopVars, scenVars, schedVars,
                   tachVars, stopVars, webVars>>

\* a pass in which recvfrom times out after 1 s (lines 93-95) with stop_event
\* set: the loop ends and the socket is closed (line 103)
ReceiveTimeout ==
    /\ fan.receiver = "running"
    /\ fan.stop_event
    /\ rxq = << >>
    /\ fan' = loop_condition(fan)
    /\ rxlog' = NoRecv
    /\ UNCHANGED <<now, pidVars, twinVars, fileVars, loopVars, rxq, pwm, scenVars,
                   schedVars, tachVars, stopVars, webVars>>

\* main() leaves its wait loop (KeyboardInterrupt) and sets stop_event (line 177)
FanShutdown ==
    /\ fan.main = "serving"
    /\ fan' = [fan EXCEPT !.stop_event = TRUE, !.main = "joining"]
    /\ rxlog' = NoRecv
    /\ UNCHANGED <<now, pidVars, twinVars, fileVars, loopVars, rxq, pwm, scenVars,
                   schedVars, tachVars, stopVars, webVars>>

\* the loop condition of the RPM sender (line 112)
SenderCheck ==
    /\ fan.sender = "checking"
    /\ fan' = [fan EXCEPT !.sender = IF fan.stop_event THEN "ended" ELSE "sending"]
    /\ UNCHANGED <<now, pidVars, twinVars, fileVars, loopVars, rxq, pwm, rxlog,
                   scenVars, schedVars, tachVars, stopVars, webVars>>

\* the body of the RPM sender's loop up to its sleep (lines 113-124, or the
\* handler of lines 126-128, which sleeps 1 s instead)
SenderSend ==
    /\ fan.sender = "sending"
    /\ fan' = [fan EXCEPT !.sender = "sleeping",
                          !.after_stop = @ + (IF fan.stop_event THEN 1 ELSE 0)]
    /\ UNCHANGED <<now, pidVars, twinVars, fileVars, loopVars, rxq, pwm, rxlog,
                   scenVars, schedVars, tachVars, stopVars, webVars>>

\* time.sleep returns (line 124 or 128)
SenderWake ==
    /\ fan.sender = "sleeping"
    /\ fan' = [fan EXCEPT !.sender = "checking"]
    /\ UNCHANGED <<now, pidVars, twinVars, fileVars, loopVars, rxq, pwm, rxlog,
                   scenVars, schedVars, tachVars, stopVars, webVars>>

\* a join that returns whether or not the thread has ended
thread_join_timeout(receiver) == TRUE

\* command_thread.join() without timeout (line 178) returns, or is skipped
\* because the thread is not alive
thread_join(receiver) == receiver = "ended"

\* lines 178-184: the joins have returned, the tachometer callback is
\* cancelled and the duty cycle is set to 0
FinalZero ==
    /\ fan.main = "joining"
    /\ thread_join(fan.receiver)
    /\ thread_join(fan.sender)
    /\ pwm' = 0
    /\ fan' = [fan EXCEPT !.main = "zeroed"]
    /\ UNCHANGED <<now, pidVars, twinVars, fileVars, loopVars, rxq, rxlog, scenVars,
                   schedVars, tachVars, stopVars, webVars>>

\* pi.stop() (line 185)
Release ==
    /\ fan.main = "zeroed"
    /\ fan' = [fan EXCEPT !.main = "released"]
    /\ UNCHANGED <<now, pidVars, twinVars, fileVars, loopVars, rxq, pwm, rxlog,
                   scenVars, schedVars, tachVars, stopVars, webVars>>

NextRecv ==
    \/ Arrive
    \/ Receive
    \/ ReceiveTimeout
    \/ FanShutdown
    \/ SenderCheck
    \/ SenderSend
    \/ SenderWake
    \/ FinalZero
    \/ Release

SpecRecv == InitRecv /\ [][NextRecv]_vars

\* the two threads are scheduled: a recvfrom returns with a datagram or after
\* its timeout (line 80), a sleep returns, a thread that can run does run
SpecRecvFair ==
    /\ SpecRecv
    /\ WF_vars(Receive \/ ReceiveTimeout)
    /\ WF_vars(SenderCheck)
    /\ WF_vars(SenderSend)
    /\ WF_vars(SenderWake)

\* C5: when several duty commands are queued at the command receiver, only
\* the most recently received one is applied to the actuator: a command is
\* never applied while a newer one is queued behind it.
C5_OnlyLatestApplied == rxlog.applied => rxlog.behind = 0

\* C26: a payload that is not an integer token leaves the duty on the pin as
\* it was and the receiver in its loop, and the duty on the pin is always in
\* 0..255.
C26_MalformedChangesNothing ==
    /\ pwm \in 0..255
    /\ (rxlog.received /\ ~rxlog.applied) =>
          /\ rxlog.pwm_after = rxlog.prev_pwm
          /\ (~rxlog.stopping => rxlog.running_after)

\* a malformed payload received while the pin carries the duty 80 of an
\* earlier command, the receiver still running
C26_Witness ==
    /\ rxlog.received
    /\ ~rxlog.applied
    /\ rxlog.prev_pwm = 80
    /\ pwm = 80
    /\ fan.receiver = "running"

\* C29: once main() has driven the duty to 0 on shutdown the receiver thread
\* has ended and the duty stays 0, up to and after the release of the
\* hardware handle.
C29_FinalZeroAfterReceiverEnded ==
    fan.main \in {"zeroed", "released"} =>
        /\ pwm = 0
        /\ fan.receiver = "ended"

\* a non-zero command applied after stop_event was set, then the final zero
\* and the release
C29_Witness ==
    /\ fan.main = "released"
    /\ rxlog.received
    /\ rxlog.applied
    /\ rxlog.stopping
    /\ rxlog.pwm_after = 255
    /\ pwm = 0

\* C31: once stop_event is set the command receiver and the RPM sender both
\* end, whether or not a datagram ever arrives, and the RPM sender sends at
\* most one report after the flag was set.
C31_ThreadsTerminate ==
    /\ fan.stop_event ~> (fan.receiver = "ended" /\ fan.sender = "ended")
    /\ [](fan.after_stop <= 1)

\* both threads ended with stop_event set, no datagram ever read from the
\* command socket, and one report sent after the flag was set
C31_Witness ==
    /\ fan.stop_event
    /\ fan.receiver = "ended"
    /\ fan.sender = "ended"
    /\ ~fan.any_received
    /\ rxq = << >>
    /\ fan.after_stop = 1

-----------------------------------------------------------------------------
(* The actuation node's tachometer callback and RPM sender thread, with     *)
(* commands applied in between: SpecTach.  Time is the pigpio tick clock,   *)
(* counted in units of 32 microseconds; the tick handed to the callback     *)
(* wraps at 2^32 microseconds.                                              *)

UsPerTachTick == 2 ^ 5
TickWrap == 2 ^ 27
FAN_POLE_PAIRS == 2
\* 0.5 s
RPM_REPORT_INTERVAL == 500000 \div UsPerTachTick

\* the difference of two ticks without the wrap correction
tickDiff_signed(t1, t2) == t2 - t1

\* pigpio.tickDiff: t2 - t1, plus 2^32 microseconds when negative
tickDiff(t1, t2) == (t2 - t1) % TickWrap

\* a callback that stores 0 for an edge with no positive interval to the
\* previous one
cbf_zero_without_interval(t, rpm, tick) ==
    [tachometer |-> [t EXCEPT !.last_tick = tick],
     global_rpm |-> IF t.last_tick # -1 /\ tickDiff(t.last_tick, tick) > 0
                    THEN (60 * 1000000) \div
                         (tickDiff(t.last_tick, tick) * UsPerTachTick * FAN_POLE_PAIRS)
                    ELSE 0]

\* Tachometer._cbf (lines 51-66): the Tachometer object and global_rpm after
\* the callback ran for an edge at tick; last_tick = -1 is None.
\* rpm = 60.0 / (t_diff * fan_pole_pairs) with t_diff in seconds
cbf(t, rpm, tick) ==
    [tachometer |-> [t EXCEPT !.last_tick = tick],
     global_rpm |-> IF t.last_tick # -1 /\ tickDiff(t.last_tick, tick) > 0
                    THEN (60 * 1000000) \div
                         (tickDiff(t.last_tick, tick) * UsPerTachTick * FAN_POLE_PAIRS)
                    ELSE rpm]

\* a report that does not carry the RPM read
rpm_payload_zero(rpm) == [fan_rpm |-> 0]

\* the payload of a report (line 119), before json.dumps
rpm_payload(rpm) == [fan_rpm |-> rpm]

\* the tick clock when the node starts; the second value is 400 units before
\* the wrap
TachStarts == {0, TickWrap - 400}
\* time from one falling edge to the next, in units of 32 microseconds
EdgeIntervals == {0, 312, 4687, 15000}

InitTach ==
    /\ now \in TachStarts
    /\ pid = IdlePID
    /\ call = NoCall
    /\ IdleTwin
    /\ IdleLoop
    /\ IdleAux
    /\ IdleRecv
    /\ IdleStop
    /\ IdleWeb
    /\ tachometer = [last_tick |-> -1]
    /\ global_rpm = 0
    /\ report = [NoReport EXCEPT !.next = now]
    /\ edge = NoEdge

\* a falling edge on TACHO_PIN: pigpio runs the callback with its tick
FallingEdge ==
    /\ edge.n < MaxEdges
    /\ \E dt \in EdgeIntervals :
          /\ now + dt <= report.next
          /\ now' = now + dt
          /\ \E c \in {cbf(tachometer, global_rpm, (now + dt) % TickWrap)} :
                /\ tachometer' = c.tachometer
                /\ global_rpm' = c.global_rpm
          /\ edge' = [n          |-> edge.n + 1,
                      prev_at    |-> IF edge.n = 0 THEN -1 ELSE edge.at,
                      at         |-> now + dt,
                      rpm_before |-> global_rpm,
                      last_rpm   |-> IF edge.n > 0 /\ now + dt > edge.at
                                     THEN (60 * 1000000) \div
                                          ((now + dt - edge.at) * UsPerTachTick
                                              * FAN_POLE_PAIRS)
                                     ELSE edge.last_rpm]
    /\ UNCHANGED <<pidVars, twinVars, fileVars, loopVars, recvVars, report, scenVars,
                   schedVars, stopVars, webVars>>

\* one pass of the loop of rpm_sender_thread_func (lines 111-123): the RPM
\* is read under the lock and sent, then the thread sleeps RPM_REPORT_INTERVAL
SendReport ==
    /\ report.n < MaxReports
    /\ now' = report.next
    /\ report' = [n           |-> report.n + 1,
                  payload     |-> rpm_payload(global_rpm),
                  at          |-> report.next,
                  prev_at     |-> report.at,
                  next        |-> report.next + RPM_REPORT_INTERVAL,
                  rpm_read    |-> global_rpm,
                  duty_on_pin |-> pwm,
                  edges       |-> edge.n]
    /\ UNCHANGED <<pidVars, twinVars, fileVars, loopVars, recvVars, tachometer,
                   global_rpm, edge, scenVars, schedVars, stopVars, webVars>>

\* a command datagram arrives and the receiver thread handles it
TachCommand ==
    /\ \E d \in Payloads : pwm' = handle_datagram(d, pwm).pwm
    /\ UNCHANGED <<now, pidVars, twinVars, fileVars, loopVars, rxq, rxlog, fan,
                   tachVars, scenVars, schedVars, stopVars, webVars>>

NextTach ==
    \/ FallingEdge
    \/ SendReport
    \/ TachCommand

SpecTach == InitTach /\ [][NextTach]_vars

C40_RpmHeldWithoutEdges ==
    /\ [][global_rpm' # global_rpm =>
              /\ edge'.n = edge.n + 1
              /\ edge'.prev_at # -1
              /\ edge'.at > edge'.prev_at]_vars
    /\ [](global_rpm = edge.last_rpm)
    /\ [](report.n > 0 /\ report.edges = edge.n =>
              report.payload.fan_rpm = edge.last_rpm)

\* a third report, the last edge older than the second report: a whole
\* report interval without edges, and the report carries the RPM measured
\* before it
C40_Witness ==
    /\ report.n = 3
    /\ edge.n > 1
    /\ edge.at < report.prev_at
    /\ edge.last_rpm = 3004
    /\ report.payload.fan_rpm = 3004
    /\ global_rpm = 3004

-----------------------------------------------------------------------------
(* The sensing node shutting down: main()'s finally block running against   *)
(* the PID control thread: SpecStop.  Time is in ticks of MsPerTick ms.     *)

\* pid_thread.join(timeout=1.0)
JoinTimeout == 1000 \div MsPerTick
\* REPORT_INTERVAL of the telemetry sender thread, 0.25 s: the longest its
\* join can take
TelemetryInterval == 250 \div MsPerTick
\* the duty an iteration arrives at
StopDuties == {0, 255}
\* current_state["delay"], in ms
StopDelays == {0, 2000}
\* current_state["loss_rate"]
StopLossRates == {0, 50}

\* main() has started both threads; the control thread is at the top of its loop
InitStop ==
    /\ IdlePIDSide
    /\ IdleTwin
    /\ IdleLoop
    /\ IdleAux
    /\ IdleRecv
    /\ IdleTach
    /\ IdleWeb
    /\ node = NoNode

StopTick ==
    /\ now < MaxStopTime
    /\ (node.thread = "top" /\ (node.stop_event \/ node.n < MaxIterations))
          => now < node.ready
    /\ node.thread = "delaying" => now < node.wake
    /\ node.main \in {"joining", "joining_telemetry"} => now < node.deadline
    /\ node.main # "zeroed"
    /\ now' = now + 1
    /\ UNCHANGED <<pidVars, twinVars, fileVars, loopVars, recvVars, tachVars, scenVars,
                   schedVars, stopVars, webVars>>

\* the control thread tests stop_event (line 244) and, when it is clear, runs
\* an iteration up to the sleep of the congestion step (lines 245-345)
IterationBegin ==
    /\ node.thread = "top"
    /\ now >= node.ready
    /\ IF node.stop_event
       THEN node' = [node EXCEPT !.thread = "ended"]
       ELSE /\ node.n < MaxIterations
            /\ \E duty \in StopDuties, delay \in StopDelays,
                  loss_rate \in StopLossRates, u \in Draws :
               \E cg \in {congestion_step(delay, loss_rate, u)} :
               node' = [node EXCEPT !.thread = "delaying",
                                    !.n = node.n + 1,
                                    !.duty = duty,
                                    !.packet_sent = cg.packet_sent,
                                    !.wake = now + cg.slept,
                                    !.ready = now + Max(cg.slept, InitialPID.sample_time)]
    /\ UNCHANGED <<now, pidVars, twinVars, fileVars, loopVars, recvVars, tachVars,
                   scenVars, schedVars, webVars>>

\* the rest of the iteration (lines 347-384): the command is sent unless
\* dropped; sendto on the closed socket raises and the exception is caught
\* (lines 358-359); then the thread sleeps out the sample time
IterationSend ==
    /\ node.thread = "delaying"
    /\ now = node.wake
    /\ node' = [node EXCEPT !.thread = "top",
                            !.last_sent = IF node.packet_sent /\ node.socket_open
                                          THEN node.duty ELSE node.last_sent]
    /\ UNCHANGED <<now, pidVars, twinVars, fileVars, loopVars, recvVars, tachVars,
                   scenVars, schedVars, webVars>>

\* main() leaves its wait loop and sets stop_event (line 470)
StopShutdown ==
    /\ node.main = "running"
    /\ node' = [node EXCEPT !.stop_event = TRUE, !.main = "joining",
                            !.deadline = now + JoinTimeout]
    /\ UNCHANGED <<now, pidVars, twinVars, fileVars, loopVars, recvVars, tachVars,
                   scenVars, schedVars, webVars>>

\* pid_thread.join(timeout=1.0) returns (line 472): the thread has ended or
\* the timeout has expired
pid_thread_join(n, t) == n.thread = "ended" \/ t >= n.deadline

\* lines 472-473: the first join returns and main() joins the telemetry
\* sender, which ends within its report interval
JoinThreads ==
    /\ node.main = "joining"
    /\ pid_thread_join(node, now)
    /\ \E w \in {0, TelemetryInterval} :
          node' = [node EXCEPT !.main = "joining_telemetry", !.deadline = now + w]
    /\ UNCHANGED <<now, pidVars, twinVars, fileVars, loopVars, recvVars, tachVars,
                   scenVars, schedVars, webVars>>

\* line 477: main() sends the command "0"
SendZero ==
    /\ node.main = "joining_telemetry"
    /\ now = node.deadline
    /\ node' = [node EXCEPT !.main = "zeroed", !.last_sent = 0, !.zero_sent = TRUE]
    /\ UNCHANGED <<now, pidVars, twinVars, fileVars, loopVars, recvVars, tachVars,
                   scenVars, schedVars, webVars>>

\* line 482: fan_sock.close()
CloseSocket ==
    /\ node.main = "zeroed"
    /\ node' = [node EXCEPT !.main = "closed", !.socket_open = FALSE]
    /\ UNCHANGED <<now, pidVars, twinVars, fileVars, loopVars, recvVars, tachVars,
                   scenVars, schedVars, webVars>>

NextStop ==
    \/ StopTick
    \/ IterationBegin
    \/ IterationSend
    \/ StopShutdown
    \/ JoinThreads
    \/ SendZero
    \/ CloseSocket

SpecStop == InitStop /\ [][NextStop]_vars

\* C30: once main() has sent the zero command on shutdown, the last command
\* the sensing node has transmitted is 0, in every interleaving with the
\* control thread.
C30_LastCommandIsZero == node.zero_sent => node.last_sent = 0

-----------------------------------------------------------------------------
(* An experiment of the web application: start() and stop() called by a    *)
(* thread of the master controller (or of the test script) while the       *)
(* worker thread runs: SpecExp.  The threads interleave between accesses   *)
(* to the object's attributes.                                              *)

ExperimentKinds == {"iperf", "stress"}
\* a reading the worker stores with set_metric while the load runs
LoadMetric == 37

InitExp ==
    /\ IdlePIDSide
    /\ IdleTwin
    /\ IdleLoop
    /\ IdleAux
    /\ IdleRecv
    /\ IdleTach
    /\ IdleStop
    /\ system_status = NoStatus
    /\ drain = NoDrain
    /\ upd = NoUpd
    /\ \E k \in ExperimentKinds : experiment = NewExperiment(k)

expVars == <<now, pidVars, twinVars, fileVars, loopVars, recvVars, tachVars,
             stopVars, scenVars, schedVars, system_status, drain, upd>>

WorkerAlive == experiment.worker \notin {"none", "ended", "crashed"}

\* run_experiment_handler_internal creates the experiment, makes it the
\* active one and calls start() (lines 296-313); start() clears is_running
\* and starts the worker thread (lines 53-62)
ExpStart ==
    /\ experiment.caller = "idle"
    /\ experiment' = [experiment EXCEPT !.is_running = FALSE, !.worker = "spawn",
                                        !.caller = "started", !.active = "this"]
    /\ UNCHANGED expVars

\* stop() up to the terminate (lines 69-76): it returns at once when
\* is_running is set, else it sets it
stop_begin(e) ==
    IF e.is_running THEN [e |-> e, returned |-> TRUE]
    ELSE [e |-> [e EXCEPT !.is_running = TRUE], returned |-> FALSE]

\* stop(), lines 79-88: a subprocess held in load_process and still running
\* is terminated, waited for 2 s and killed if it has not ended
stop_terminate(e) ==
    IF e.load_process = "proc" /\ e.proc = "running"
    THEN [e EXCEPT !.proc = "exited"] ELSE e

\* stop(), lines 91-97: the pipes are closed and load_process is set to None
stop_close(e) == [e EXCEPT !.load_process = "None"]

\* what the caller of stop() in the master controller does when stop() has
\* returned: stop_load leaves no active experiment, start_load of another
\* type makes the new experiment the active one (lines 272-313)
ActiveAfterStop == {"none", "other"}

\* the caller enters stop() (the handler holds experiment_lock from here)
ExpStopBegin ==
    /\ experiment.caller = "started"
    /\ \E r \in {stop_begin(experiment)} :
          IF r.returned
          THEN \E a \in ActiveAfterStop :
                  experiment' = [r.e EXCEPT !.caller = "returned", !.active = a]
          ELSE experiment' = [r.e EXCEPT !.caller = "stop_terminate"]
    /\ UNCHANGED expVars

ExpStopTerminate ==
    /\ experiment.caller = "stop_terminate"
    /\ experiment' = [stop_terminate(experiment) EXCEPT !.caller = "stop_close"]
    /\ UNCHANGED expVars

\* stop() returns to the handler, which replaces active_experiment
ExpStopClose ==
    /\ experiment.caller = "stop_close"
    /\ \E a \in ActiveAfterStop :
          experiment' = [stop_close(experiment) EXCEPT !.caller = "returned",
                                                       !.active = a]
    /\ UNCHANGED expVars

\* the handler holds experiment_lock (line 267)
HandlerHoldsLock == experiment.caller \in {"stop_terminate", "stop_close"}

\* experiment_finished_callback (lines 220-254), called by the worker of an
\* experiment run_experiment_handler_internal gave the callback to (the
\* IperfExperiment, line 299): under experiment_lock it clears whatever
\* active_experiment refers to (lines 241-244)
HasCallback(e) == e.kind = "iperf"

experiment_finished_callback(e) ==
    IF HasCallback(e)
    THEN [e EXCEPT !.active = "none",
                   !.cleared_other = e.cleared_other \/ e.active = "other"]
    ELSE e

\* the worker starts the subprocess (lines 144-152, 241-248); when the
\* command is not found it sets is_running, the IperfExperiment clears the
\* metric, the finish callback is called and the worker returns
WorkerSpawn ==
    /\ experiment.worker = "spawn"
    /\ \/ experiment' = [experiment EXCEPT !.load_process = "proc",
                                           !.proc = "running", !.worker = "loop"]
       \/ /\ ~HandlerHoldsLock
          /\ experiment' =
                [experiment_finished_callback(
                    [experiment EXCEPT !.is_running = TRUE,
                                       !.metric = IF experiment.kind = "iperf"
                                                  THEN 0 ELSE @])
                 EXCEPT !.worker = "ended"]
    /\ UNCHANGED expVars

\* the test of is_running in the loop condition (lines 161, 254)
WorkerLoopTest ==
    /\ experiment.worker = "loop"
    /\ experiment' = [experiment EXCEPT !.worker =
                         IF experiment.is_running THEN "after" ELSE "poll"]
    /\ UNCHANGED expVars

\* self.load_process.poll() (lines 161, 256): an AttributeError when
\* load_process is None, which ends the thread
WorkerPoll ==
    /\ experiment.worker = "poll"
    /\ experiment' =
          IF experiment.load_process = "None"
          THEN [experiment EXCEPT !.worker = "crashed", !.used_after_clear = TRUE]
          ELSE IF experiment.proc = "exited"
          THEN [experiment EXCEPT !.worker = "after"]
          ELSE [experiment EXCEPT !.worker = "measure"]
    /\ UNCHANGED expVars

\* the body of the loop up to set_metric: the StressExperiment stores the
\* CPU reading and sleeps (lines 262-266); the IperfExperiment reads a line
\* from self.load_process.stdout and stores its rate, or leaves the loop at
\* the end of the output (lines 162-192)
WorkerMeasure ==
    /\ experiment.worker = "measure"
    /\ experiment' =
          IF experiment.kind = "stress"
          THEN [experiment EXCEPT !.metric = LoadMetric, !.worker = "sleep"]
          ELSE IF experiment.load_process = "None"
          THEN [experiment EXCEPT !.worker = "crashed", !.used_after_clear = TRUE]
          ELSE IF experiment.proc = "exited"
          THEN [experiment EXCEPT !.worker = "after"]
          ELSE [experiment EXCEPT !.metric = LoadMetric, !.worker = "loop"]
    /\ UNCHANGED expVars

\* time.sleep(self.interval) returns (line 266)
WorkerWake ==
    /\ experiment.worker = "sleep"
    /\ experiment' = [experiment EXCEPT !.worker = "loop"]
    /\ UNCHANGED expVars

\* the subprocess ends by itself (iperf3 after 60 s, or a failure)
ProcessExits ==
    /\ experiment.proc = "running"
    /\ experiment' = [experiment EXCEPT !.proc = "exited"]
    /\ UNCHANGED expVars

\* after the loop: the IperfExperiment tests is_running once more and goes
\* on to the finish callback when it is not set (lines 199-201), else it
\* clears the metric (line 204); the StressExperiment clears the metric and
\* calls _on_experiment_finish, for which the master controller sets no
\* callback (lines 270-275)
WorkerAfter ==
    /\ experiment.worker = "after"
    /\ experiment' =
          IF experiment.kind = "iperf" /\ ~experiment.is_running
          THEN [experiment EXCEPT !.worker = "finish"]
          ELSE [experiment EXCEPT !.metric = 0, !.worker = "selfstop"]
    /\ UNCHANGED expVars

\* the finish callback of the IperfExperiment, once experiment_lock is free
\* (line 231), then set_metric(0.0) (line 204)
WorkerFinish ==
    /\ experiment.worker = "finish"
    /\ ~HandlerHoldsLock
    /\ experiment' = [experiment_finished_callback(experiment)
                      EXCEPT !.metric = 0, !.worker = "selfstop"]
    /\ UNCHANGED expVars

\* the worker's own self.stop() (lines 205, 276), entered
WorkerStopBegin ==
    /\ experiment.worker = "selfstop"
    /\ \E r \in {stop_begin(experiment)} :
          experiment' = [r.e EXCEPT !.worker =
                            IF r.returned THEN "ended" ELSE "stop_terminate"]
    /\ UNCHANGED expVars

WorkerStopTerminate ==
    /\ experiment.worker = "stop_terminate"
    /\ experiment' = [stop_terminate(experiment) EXCEPT !.worker = "stop_close"]
    /\ UNCHANGED expVars

WorkerStopClose ==
    /\ experiment.worker = "stop_close"
    /\ experiment' = [stop_close(experiment) EXCEPT !.worker = "ended"]
    /\ UNCHANGED expVars

NextExp ==
    \/ ExpStart
    \/ ExpStopBegin
    \/ ExpStopTerminate
    \/ ExpStopClose
    \/ WorkerSpawn
    \/ WorkerLoopTest
    \/ WorkerPoll
    \/ WorkerMeasure
    \/ WorkerWake
    \/ ProcessExits
    \/ WorkerAfter
    \/ WorkerFinish
    \/ WorkerStopBegin
    \/ WorkerStopTerminate
    \/ WorkerStopClose

SpecExp == InitExp /\ [][NextExp]_vars

\* C33: after stop() has returned on a started experiment,
\* get_latest_metric() returns 0.0.
C33_MetricZeroAfterStop ==
    experiment.caller = "returned" => experiment.metric = 0

\* C38: once stop() has returned and the worker thread has exited, no
\* subprocess of the experiment is running and load_process is None, and the
\* worker never dereferenced load_process after stop() had cleared it.
C38_NoProcessLeftAfterStop ==
    /\ (experiment.caller = "returned" /\ experiment.worker \in {"ended", "crashed"}) =>
          /\ experiment.proc # "running"
          /\ experiment.load_process = "None"
    /\ ~experiment.used_after_clear

\* C39: while the worker of an experiment started by the handler is running
\* active_experiment refers to that experiment, and the finish callback never
\* clears active_experiment while it refers to another experiment.
C39_RunningExperimentTracked ==
    /\ WorkerAlive => experiment.active = "this"
    /\ ~experiment.cleared_other

-----------------------------------------------------------------------------
(* The master controller's telemetry listeners and status poller writing   *)
(* system_status under status_lock: SpecAgg                                 *)

MaxDatagrams == 3

\* datagrams on the sensor telemetry port: two full reports, one that lacks
\* fields and has a key of the other stream, text that is no JSON, JSON that
\* is no object
SensorDatagrams ==
    { Json([current_distance |-> 12, fan_output_duty |-> 255, pid_status |-> "RUNNING"]),
      Json([current_distance |-> 30, fan_output_duty |-> 51, pid_status |-> "STOPPED"]),
      Json([current_distance |-> 18, fan_rpm |-> 9999]),
      Garbage, NonDict }

\* datagrams on the fan telemetry port
FanDatagrams ==
    { Json([fan_rpm |-> 3004]),
      Json([fan_rpm |-> 1500, current_distance |-> 99]),
      Json(EmptyObject),
      Garbage }

\* round((raw_duty / 255.0) * 100, 1) in tenths of a percent, 0.0 when the
\* key is absent (lines 168-172)
scaled_duty(obj) ==
    IF "fan_output_duty" \in DOMAIN obj
    THEN (obj.fan_output_duty * 2000 + 255) \div 510
    ELSE 0

\* a sensor listener that also stores a fan_rpm key
sensor_data_listener_all_keys(st, d, t) ==
    IF d.kind # "json" THEN st
    ELSE [st EXCEPT !.current_distance = Get(d.obj, "current_distance", @),
                    !.fan_output_duty = scaled_duty(d.obj),
                    !.pid_status = Get(d.obj, "pid_status", @),
                    !.current_rpm = Get(d.obj, "fan_rpm", @),
                    !.master_timestamp = t]

\* the body of sensor_data_listener's loop for a datagram d handled at time
\* t (lines 165-190): text that json.loads rejects, or that is no
\* dictionary (packet.get raises), changes nothing
sensor_data_listener(st, d, t) ==
    IF d.kind # "json" THEN st
    ELSE [st EXCEPT !.current_distance = Get(d.obj, "current_distance", @),
                    !.fan_output_duty = scaled_duty(d.obj),
                    !.pid_status = Get(d.obj, "pid_status", @),
                    !.master_timestamp = t]

\* the body of fan_data_listener's loop (lines 204-212)
fan_data_listener(st, d, t) ==
    IF d.kind # "json" THEN st
    ELSE [st EXCEPT !.current_rpm = Get(d.obj, "fan_rpm", @),
                    !.master_timestamp = t]

\* status_poller, lines 505-508, for the field the sensor listener writes
\* too: PID_STATUS of the setpoint config file when the file loads
status_poller(st, f) ==
    IF f.kind = "json"
    THEN [st EXCEPT !.pid_status = Get(f.obj, "PID_STATUS", @)]
    ELSE st

InitAgg ==
    /\ IdlePIDSide
    /\ IdleTwin
    /\ current_state = InitialState
    /\ setpoint_file \in {Absent, Json("PID_STATUS" :> "RUNNING")}
    /\ congestion_file = Absent
    /\ writes = 0
    /\ writer = NoWriter
    /\ alive = FALSE
    /\ iter = NoIter
    /\ inj = NoInj
    /\ IdleAux
    /\ IdleRecv
    /\ IdleTach
    /\ IdleStop
    /\ experiment = NoExperiment
    /\ drain = NoDrain
    /\ upd = NoUpd
    /\ system_status = NoStatus

aggVars == <<now, pidVars, twinVars, fileVars, loopVars, recvVars, tachVars,
             stopVars, scenVars, schedVars, experiment, drain, upd>>

Handled == Len(system_status.sensor_log) + Len(system_status.fan_log)

SensorDatagram ==
    /\ Handled < MaxDatagrams
    /\ \E d \in SensorDatagrams :
          system_status' =
             [status     |-> sensor_data_listener(system_status.status, d, Handled + 1),
              sensor_log |-> Append(system_status.sensor_log, d),
              fan_log    |-> system_status.fan_log,
              op         |-> "sensor",
              before     |-> system_status.status]
    /\ UNCHANGED aggVars

FanDatagram ==
    /\ Handled < MaxDatagrams
    /\ \E d \in FanDatagrams :
          system_status' =
             [status     |-> fan_data_listener(system_status.status, d, Handled + 1),
              sensor_log |-> system_status.sensor_log,
              fan_log    |-> Append(system_status.fan_log, d),
              op         |-> "fan",
              before     |-> system_status.status]
    /\ UNCHANGED aggVars

\* one pass of status_poller (every 250 ms)
StatusPoll ==
    /\ system_status' = [system_status EXCEPT
                            !.status = status_poller(system_status.status, setpoint_file),
                            !.op = "poller",
                            !.before = system_status.status]
    /\ UNCHANGED aggVars

NextAgg ==
    \/ SensorDatagram
    \/ FanDatagram
    \/ StatusPoll

SpecAgg == InitAgg /\ [][NextAgg]_vars

\* the value of key in the most recent datagram of log that is an object
\* and has the key
RECURSIVE LastValue(_, _, _)
LastValue(log, key, default) ==
    IF log = << >> THEN default
    ELSE LET d == log[Len(log)]
         IN IF d.kind = "json" /\ key \in DOMAIN d.obj THEN d.obj[key]
            ELSE LastValue(SubSeq(log, 1, Len(log) - 1), key, default)

\* the most recent datagram of log that is an object
RECURSIVE LastObject(_)
LastObject(log) ==
    IF log = << >> THEN EmptyObject
    ELSE IF log[Len(log)].kind = "json" THEN log[Len(log)].obj
    ELSE LastObject(SubSeq(log, 1, Len(log) - 1))

\* the fan listener changes current_rpm and master_timestamp only, the
\* sensor listener never changes current_rpm, nor does the poller
DisjointWrites ==
    /\ system_status.op = "fan" =>
          [system_status.status EXCEPT !.current_rpm = 0, !.master_timestamp = 0]
             = [system_status.before EXCEPT !.current_rpm = 0, !.master_timestamp = 0]
    /\ system_status.op \in {"sensor", "poller"} =>
          system_status.status.current_rpm = system_status.before.current_rpm

-----------------------------------------------------------------------------
(* update_status_file called on congestion_config.json by a dashboard      *)
(* handler and by the experiment-finished callback on the worker thread:   *)
(* SpecUpd.  The two threads interleave between the file operations.       *)

Callers == {"handler", "callback"}

\* (key, value) of the calls a thread makes, in order: handle_congestion_update
\* (lines 382-383) and experiment_finished_callback (line 233)
CallsOf(c) ==
    IF c = "handler"
    THEN << <<"CONGESTION_DELAY", Num(50)>>, <<"PACKET_LOSS_RATE", Num(10)>> >>
    ELSE << <<"LOAD_TYPE", Str("none")>> >>

\* what congestion_config.json holds when the calls begin
UpdFiles ==
    { Absent, Garbage, NonDict,
      Json(("CONGESTION_DELAY" :> Num(0)) @@ ("PACKET_LOSS_RATE" :> Num(0))
           @@ ("LOAD_TYPE" :> Str("iperf"))) }

InitUpd ==
    /\ IdlePIDSide
    /\ IdleTwin
    /\ current_state = InitialState
    /\ setpoint_file = Absent
    /\ congestion_file \in UpdFiles
    /\ writes = 0
    /\ writer = NoWriter
    /\ alive = FALSE
    /\ iter = NoIter
    /\ inj = NoInj
    /\ IdleAux
    /\ IdleRecv
    /\ IdleTach
    /\ IdleStop
    /\ experiment = NoExperiment
    /\ drain = NoDrain
    /\ system_status = NoStatus
    /\ upd = [c \in Callers |-> NoCaller] @@ [last |-> "none"]

updVars == <<now, pidVars, twinVars, setpoint_file, writes, writer, loopVars,
             recvVars, tachVars, stopVars, scenVars, schedVars, experiment, drain,
             system_status>>

Other(c) == IF c = "handler" THEN "callback" ELSE "handler"

InCall(c) == upd[c].pc \in {"loaded", "opened"}

\* the call in progress, or the last one finished
CurrentCall(c) == CallsOf(c)[IF upd[c].pc = "idle" THEN upd[c].n ELSE upd[c].n + 1]

\* lines 116-122: the file is loaded when it exists and the key is set in
\* the dictionary; an exception makes the call return False (lines 128-130).
\* A handler's second call is made only when the first returned True (line 382)
UpdLoad(c) ==
    /\ upd[c].pc = "idle"
    /\ upd[c].n < Len(CallsOf(c))
    /\ upd[c].ok
    /\ \E u \in {update_status_file(congestion_file, CallsOf(c)[upd[c].n + 1][1],
                                    CallsOf(c)[upd[c].n + 1][2])} :
          upd' = [upd EXCEPT
                     ![c] = [n          |-> IF u.ok THEN @.n ELSE @.n + 1,
                             pc         |-> IF u.ok THEN "loaded" ELSE "idle",
                             data       |-> u.data,
                             before     |-> congestion_file,
                             ok         |-> u.ok,
                             overlapped |-> InCall(Other(c))],
                     ![Other(c)].overlapped = @ \/ (InCall(Other(c)) /\ u.ok),
                     !.last = c]
    /\ UNCHANGED <<congestion_file, updVars>>

\* open(filename, 'w') empties the file (line 124)
UpdOpen(c) ==
    /\ upd[c].pc = "loaded"
    /\ congestion_file' = Truncated
    /\ upd' = [upd EXCEPT ![c].pc = "opened", !.last = c]
    /\ UNCHANGED updVars

\* json.dump writes the dictionary and the call returns True (lines 125-127)
UpdDump(c) ==
    /\ upd[c].pc = "opened"
    /\ congestion_file' = Json(upd[c].data)
    /\ upd' = [upd EXCEPT ![c].pc = "idle", ![c].n = @ + 1, !.last = c]
    /\ UNCHANGED updVars

NextUpd ==
    \E c \in Callers :
        \/ UpdLoad(c)
        \/ UpdOpen(c)
        \/ UpdDump(c)

SpecUpd == InitUpd /\ [][NextUpd]_vars

\* the thread that took the last step has just returned from a call
JustReturned(c) == upd.last = c /\ upd[c].pc = "idle" /\ upd[c].n > 0

\* C36: a call of update_status_file that no other call overlaps, on a file
\* holding a JSON object, leaves every other key with its value and the given
\* key with the given value; on an absent file it creates the file with just
\* that key; on a file that does not load as a JSON object it returns False
\* and leaves the content as it was.
C36_OnlyGivenKeyChanges ==
    \A c \in Callers :
        (JustReturned(c) /\ ~upd[c].overlapped) =>
            LET k == CurrentCall(c)[1]
                v == CurrentCall(c)[2]
                b == upd[c].before
            IN CASE b.kind = "json" ->
                      /\ upd[c].ok
                      /\ congestion_file.kind = "json"
                      /\ DOMAIN congestion_file.obj = DOMAIN b.obj \cup {k}
                      /\ congestion_file.obj[k] = v
                      /\ \A j \in DOMAIN b.obj \ {k} :
                            congestion_file.obj[j] = b.obj[j]
                 [] b.kind = "absent" ->
                      /\ upd[c].ok
                      /\ congestion_file = Json(k :> v)
                 [] OTHER ->
                      /\ ~upd[c].ok
                      /\ congestion_file = b

\* the callback's call on a file with three keys, after the handler's two
\* calls: LOAD_TYPE is replaced and the two values the handler wrote stay
C36_Witness ==
    /\ JustReturned("callback")
    /\ ~upd["callback"].overlapped
    /\ upd["callback"].ok
    /\ upd["handler"].n = 2
    /\ upd["callback"].before =
          Json(("CONGESTION_DELAY" :> Num(50)) @@ ("PACKET_LOSS_RATE" :> Num(10))
               @@ ("LOAD_TYPE" :> Str("iperf")))
    /\ congestion_file.kind = "json"
    /\ congestion_file.obj = ("CONGESTION_DELAY" :> Num(50))
                                 @@ ("PACKET_LOSS_RATE" :> Num(10))
                                 @@ ("LOAD_TYPE" :> Str("none"))

-----------------------------------------------------------------------------
(* The draining receive loop of alpha/fan_PIDcontroller.py: SpecDrain.     *)
(* Duties are percentages.                                                  *)

MaxArrivals == 4

\* payloads on the command socket; the last one is an empty datagram
DrainPayloads == {"0", "80", "300", "abc", ""}

HardwareModes == {"SMBUS", "CIRCUITPYTHON"}

\* observation of the last receive cycle: the datagrams it took from the
\* socket, oldest first, how many were left queued when it processed, whether
\* set_pwm_duty was called, with what, whether the hardware write succeeded,
\* and current_duty before
NoCycle == [op |-> "none", got |-> << >>, queue_left |-> 0, wrote |-> FALSE,
            arg |-> -1, ok |-> FALSE, prev_duty |-> -1]

\* the loop is at select (line 234), current_duty is -1 (line 231)
InitDrain ==
    /\ IdlePIDSide
    /\ IdleTwin
    /\ IdleLoop
    /\ IdleAux
    /\ IdleRecv
    /\ IdleTach
    /\ IdleStop
    /\ experiment = NoExperiment
    /\ system_status = NoStatus
    /\ upd = NoUpd
    /\ \E m \in HardwareModes :
          drain = [pc |-> "select", latest_data |-> "None", got |-> << >>,
                   current_duty |-> -1, hardware_mode |-> m, arrived |-> 0,
                   log |-> NoCycle]

drainVars == <<now, pidVars, twinVars, fileVars, loopVars, pwm, rxlog, fan,
               tachVars, stopVars, scenVars, schedVars, experiment,
               system_status, upd>>

\* a datagram reaches the socket and is queued by the kernel
DrainArrive ==
    /\ drain.arrived < MaxArrivals
    /\ Len(rxq) < MaxQueue
    /\ \E d \in DrainPayloads : rxq' = Append(rxq, d)
    /\ drain' = [drain EXCEPT !.arrived = @ + 1]
    /\ UNCHANGED drainVars

\* select with the 10 ms timeout (line 234): with a datagram queued the
\* cycle begins (lines 239-241); with none the idle branch reports and
\* sleeps, writing nothing (lines 275-288)
DrainSelect ==
    /\ drain.pc = "select"
    /\ drain' = IF rxq # << >>
                THEN [drain EXCEPT !.pc = "draining", !.latest_data = "None",
                                   !.got = << >>]
                ELSE [drain EXCEPT !.log = [NoCycle EXCEPT !.op = "idle",
                                               !.prev_duty = drain.current_duty]]
    /\ UNCHANGED <<rxq, drainVars>>

\* recvfrom inside the drain loop (lines 243-245)
DrainRecv ==
    /\ drain.pc = "draining"
    /\ rxq # << >>
    /\ drain' = [drain EXCEPT !.latest_data = Head(rxq), !.got = Append(@, Head(rxq))]
    /\ rxq' = Tail(rxq)
    /\ UNCHANGED drainVars

\* set_pwm_duty as initialize_fan_controller binds it: the SMBus function
\* returns 0, or -1 after an IOError (lines 67-77); the CircuitPython lambda
\* returns None or lets the exception of the assignment through (line 151)
set_pwm_duty(mode, ok) ==
    IF mode = "SMBUS"
    THEN [raised |-> FALSE, result |-> IF ok THEN "0" ELSE "-1"]
    ELSE [raised |-> ~ok, result |-> "None"]

\* the processing of the latest datagram that stores the duty whatever the
\* write returned
process_latest_unchecked(latest_data, current_duty, mode, ok) ==
    IF latest_data \in {"None", ""} \/ ~IsIntToken(latest_data)
    THEN [wrote |-> FALSE, arg |-> -1, current_duty |-> current_duty]
    ELSE LET duty == Max(0, Min(100, IntOf(latest_data)))
         IN IF duty # current_duty
            THEN [wrote |-> TRUE, arg |-> duty, current_duty |-> duty]
            ELSE [wrote |-> FALSE, arg |-> -1, current_duty |-> current_duty]

\* lines 248-257: nothing for an empty datagram or one float() rejects; the
\* duty clamped to 0..100 is written when it differs from current_duty, and
\* stored when the write returned 0 or, in CircuitPython mode, returned
process_latest(latest_data, current_duty, mode, ok) ==
    IF latest_data \in {"None", ""} \/ ~IsIntToken(latest_data)
    THEN [wrote |-> FALSE, arg |-> -1, current_duty |-> current_duty]
    ELSE LET duty == Max(0, Min(100, IntOf(latest_data)))
             w    == set_pwm_duty(mode, ok)
         IN IF duty # current_duty
            THEN [wrote |-> TRUE, arg |-> duty,
                  current_duty |-> IF ~w.raised /\ (w.result = "0" \/ mode = "CIRCUITPYTHON")
                                   THEN duty ELSE current_duty]
            ELSE [wrote |-> FALSE, arg |-> -1, current_duty |-> current_duty]

\* the drain loop finds the socket empty (line 246) and the latest datagram
\* is processed (lines 248-274); the hardware write succeeds or fails
DrainProcess ==
    /\ drain.pc = "draining"
    /\ rxq = << >>
    /\ \E ok \in BOOLEAN :
       \E r \in {process_latest(drain.latest_data, drain.current_duty,
                                drain.hardware_mode, ok)} :
          drain' = [drain EXCEPT
                       !.pc = "select",
                       !.current_duty = r.current_duty,
                       !.log = [op |-> "cycle", got |-> drain.got,
                                queue_left |-> Len(rxq), wrote |-> r.wrote,
                                arg |-> r.arg, ok |-> ok,
                                prev_duty |-> drain.current_duty]]
    /\ UNCHANGED <<rxq, drainVars>>

NextDrain ==
    \/ DrainArrive
    \/ DrainSelect
    \/ DrainRecv
    \/ DrainProcess

SpecDrain == InitDrain /\ [][NextDrain]_vars

\* the datagram a cycle received last
LastGot == drain.log.got[Len(drain.log.got)]

\* C35 as stated: a receive cycle leaves the socket empty, and when it calls
\* set_pwm_duty the argument is the value of the datagram received last; it
\* does not write that value when it equals current_duty, and current_duty
\* changes only with a successful write.
C35_LatestValueWritten ==
    drain.log.op = "cycle" =>
        /\ drain.log.queue_left = 0
        /\ drain.log.wrote =>
              /\ IsIntToken(LastGot)
              /\ drain.log.arg = IntOf(LastGot)
              /\ drain.log.arg # drain.log.prev_duty
        /\ drain.current_duty # drain.log.prev_duty =>
              /\ drain.log.wrote
              /\ drain.log.ok
              /\ drain.current_duty = drain.log.arg

\* C35, amended: the argument is the value of the datagram received last
\* clamped to 0..100, there is no call when that datagram is empty or no
\* number or when the clamped value equals current_duty, and current_duty
\* changes only with a successful write, to the value written.
C35_LatestClampedValueWritten ==
    drain.log.op = "cycle" =>
        /\ drain.log.queue_left = 0
        /\ drain.log.got # << >>
        /\ drain.log.wrote <=>
              /\ IsIntToken(LastGot)
              /\ Clamp(IntOf(LastGot), <<0, 100>>) # drain.log.prev_duty
        /\ drain.log.wrote => drain.log.arg = Clamp(IntOf(LastGot), <<0, 100>>)
        /\ drain.current_duty # drain.log.prev_duty =>
              /\ drain.log.wrote
              /\ drain.log.ok
              /\ drain.current_duty = drain.log.arg

\* a cycle that took three datagrams, the last one out of range, while
\* current_duty was 80: one write of 100, which succeeded
C35_Witness ==
    /\ drain.log.op = "cycle"
    /\ drain.log.got = <<"0", "abc", "300">>
    /\ drain.log.prev_duty = 80
    /\ drain.log.wrote
    /\ drain.log.arg = 100
    /\ drain.log.ok
    /\ drain.current_duty = 100

=============================================================================
